---- MODULE Spec2Model ----
(***************************************************************************)
(* Request-filtering engine of YouTubeBG: UrlBlockerService                *)
(* (src/src/adblock/services/UrlBlockerService.ts) and its static filter   *)
(* lists (src/unnamed/part_005, the filters/youtube-ads module); the       *)
(* request-interception hook of YouTubeWebView (src/unnamed/part_002); the *)
(* content scripts (src/unnamed/part_006, scripts/adRemoval) with the      *)
(* ScriptInjectorService that caches them                                  *)
(* (src/src/adblock/services/ScriptInjector.ts), and the generated script  *)
(* as it runs in the hosted page.                                          *)
(*                                                                         *)
(* JavaScript strings are modelled as sequences of one-character strings,  *)
(* so that escaping, regular-expression matching, URL parsing, splitting   *)
(* and lower-casing are computed character by character as the code does.  *)
(***************************************************************************)
EXTENDS Integers, Sequences, FiniteSets, TLC

VARIABLES
    config,          \* this.config: [enabled, logBlocked, customRules]
    filters,         \* this.filters: [blockedDomains, blockedPatterns, allowPatterns]
    blockedCount,    \* this.blockedCount
    last,            \* the last call: [op, arg, ret]
    blockedReturns,  \* history: shouldBlock calls that returned blocked=true
                     \* since construction or the last resetStats
    ref,             \* history: the last shouldBlock call answered while enabled
    hook,            \* the last intercepted request of the WebView: [request, ret]
    webView,         \* state of the YouTubeWebView component: its two states,
                     \* isMountedRef, timeoutRef, the timers of the runtime,
                     \* the clock, and the history of its load
    injector,        \* the ScriptInjectorService instances:
                     \* [cachedMainScript, cachedPreloadScript] of each
    injectorLog,     \* history of each instance: [runs, cleared, first]
    page,            \* the injected script in the hosted page
    blockers,        \* the module of the engine: the `instance` binding, the
                     \* engines constructed so far and the references handed out
    app              \* the App component, its network hook and its WebView

vars == <<config, filters, blockedCount, last, blockedReturns, ref, hook, webView,
          injector, injectorLog, page, blockers, app>>

----------------------------------------------------------------------------
(* Bounds of the model *)

\* shouldBlock is offered while both counters are below MaxCount
MaxCount == 2

----------------------------------------------------------------------------
(* JavaScript strings *)

UpperCaseLetters ==
    {"A","B","C","D","E","F","G","H","I","J","K","L","M",
     "N","O","P","Q","R","S","T","U","V","W","X","Y","Z"}

LowerCaseLetters ==
    {"a","b","c","d","e","f","g","h","i","j","k","l","m",
     "n","o","p","q","r","s","t","u","v","w","x","y","z"}

Digits == {"0","1","2","3","4","5","6","7","8","9"}

ToLowerTable ==
    [c \in UpperCaseLetters |->
        CASE c = "A" -> "a" [] c = "B" -> "b" [] c = "C" -> "c" [] c = "D" -> "d"
          [] c = "E" -> "e" [] c = "F" -> "f" [] c = "G" -> "g" [] c = "H" -> "h"
          [] c = "I" -> "i" [] c = "J" -> "j" [] c = "K" -> "k" [] c = "L" -> "l"
          [] c = "M" -> "m" [] c = "N" -> "n" [] c = "O" -> "o" [] c = "P" -> "p"
          [] c = "Q" -> "q" [] c = "R" -> "r" [] c = "S" -> "s" [] c = "T" -> "t"
          [] c = "U" -> "u" [] c = "V" -> "v" [] c = "W" -> "w" [] c = "X" -> "x"
          [] c = "Y" -> "y" [] c = "Z" -> "z"]

\* one character of String.prototype.toLowerCase (ASCII)
LowerChar(c) == IF c \in UpperCaseLetters THEN ToLowerTable[c] ELSE c

\* String.prototype.toLowerCase
toLowerCase(s) == [i \in 1..Len(s) |-> LowerChar(s[i])]

\* the characters of s from index i to its end
From(s, i) == SubSeq(s, i, Len(s))

\* s.startsWith(p)
StartsWith(s, p) == Len(s) >= Len(p) /\ SubSeq(s, 1, Len(p)) = p

\* the least index i with s[i] \in stop, or Len(s)+1
FirstOf(s, stop) ==
    LET hits == {i \in 1..Len(s) : s[i] \in stop}
    IN  IF hits = {} THEN Len(s) + 1
        ELSE CHOOSE i \in hits : \A j \in hits : i <= j

\* the least index i with s[i] \notin skip, or Len(s)+1
FirstNotOf(s, skip) ==
    LET hits == {i \in 1..Len(s) : s[i] \notin skip}
    IN  IF hits = {} THEN Len(s) + 1
        ELSE CHOOSE i \in hits : \A j \in hits : i <= j

\* the concatenation of f[1], f[2], ... for a sequence of strings
RECURSIVE Flatten(_)
Flatten(ss) ==
    IF ss = <<>> THEN <<>>
    ELSE IF Len(ss) = 1 THEN ss[1]
    ELSE LET half == Len(ss) \div 2
         IN  Flatten(SubSeq(ss, 1, half)) \o Flatten(SubSeq(ss, half + 1, Len(ss)))

\* s with the characters of drop removed
Without(s, drop) == SelectSeq(s, LAMBDA c : c \notin drop)

----------------------------------------------------------------------------
(* RegExp: a regular expression is its source text and its flags.  The     *)
(* model covers the syntax the engine can produce: literal characters,     *)
(* escaped characters, '.', and the quantifiers '*', '+' and '?'.          *)

\* the characters the pattern compiler escapes: /[.+?^${}()|[\]\\]/g
RegexSpecials == {".", "+", "?", "^", "$", "{", "}", "(", ")", "|", "[", "]", "\\"}

\* '.' does not match a line terminator (no 's' flag)
LineTerminators == {"\n", "\r"}

RegexQuantifiers == {"*", "+", "?"}

\* does the atom of kind `kind` ("lit" or "any") with character ch match c
AtomMatches(kind, ch, c, ignoreCase) ==
    IF kind = "any" THEN c \notin LineTerminators
    ELSE IF ignoreCase THEN LowerChar(ch) = LowerChar(c) ELSE ch = c

\* does the source from index i on match s starting at position j?  The atom
\* at src[i] is an escaped character, '.', or a literal character, followed
\* by an optional quantifier.
RECURSIVE MatchFrom(_, _, _, _, _)
MatchFrom(src, i, s, j, ic) ==
    IF i > Len(src) THEN TRUE
    ELSE LET esc  == src[i] = "\\" /\ i < Len(src)
             n    == IF esc THEN i + 2 ELSE i + 1
             kind == IF ~esc /\ src[i] = "." THEN "any" ELSE "lit"
             ch   == IF esc THEN src[i + 1] ELSE src[i]
             q    == IF n <= Len(src) /\ src[n] \in RegexQuantifiers THEN src[n] ELSE "1"
             ok(k) == k <= Len(s) /\ AtomMatches(kind, ch, s[k], ic)
         IN  CASE q = "1" -> ok(j) /\ MatchFrom(src, n, s, j + 1, ic)
               [] q = "?" -> \/ ok(j) /\ MatchFrom(src, n + 1, s, j + 1, ic)
                             \/ MatchFrom(src, n + 1, s, j, ic)
               [] q = "*" -> \E m \in 0..(Len(s) - j + 1) :
                                /\ \A k \in j..(j + m - 1) : ok(k)
                                /\ MatchFrom(src, n + 1, s, j + m, ic)
               [] q = "+" -> \E m \in 1..(Len(s) - j + 1) :
                                /\ \A k \in j..(j + m - 1) : ok(k)
                                /\ MatchFrom(src, n + 1, s, j + m, ic)

\* RegExp.prototype.test: an unanchored search
RegexTest(regex, s) ==
    \E j \in 1..(Len(s) + 1) : MatchFrom(regex.source, 1, s, j, regex.flags = "i")

\* does `new RegExp(src)` succeed?  It throws a SyntaxError on an unmatched
\* ')', an unterminated group or character class, a quantifier with nothing
\* to repeat, and a trailing backslash.
\* st = [depth: open groups, cls: inside [...], atom: a quantifier may follow]
RECURSIVE RegexScan(_, _, _)
RegexScan(src, i, st) ==
    IF i > Len(src) THEN st.depth = 0 /\ ~st.cls
    ELSE LET c == src[i] IN
         IF c = "\\" THEN
             i < Len(src) /\ RegexScan(src, i + 2, [st EXCEPT !.atom = ~st.cls])
         ELSE IF st.cls THEN
             RegexScan(src, i + 1, IF c = "]" THEN [st EXCEPT !.cls = FALSE, !.atom = TRUE]
                                   ELSE st)
         ELSE IF c = "[" THEN
             RegexScan(src, i + 1, [st EXCEPT !.cls = TRUE, !.atom = FALSE])
         ELSE IF c = "(" THEN
             RegexScan(src, i + 1, [st EXCEPT !.depth = @ + 1, !.atom = FALSE])
         ELSE IF c = ")" THEN
             st.depth > 0
             /\ RegexScan(src, i + 1, [st EXCEPT !.depth = @ - 1, !.atom = TRUE])
         ELSE IF c \in RegexQuantifiers THEN
             st.atom
             /\ LET lazy == i < Len(src) /\ src[i + 1] = "?"
                IN  RegexScan(src, IF lazy THEN i + 2 ELSE i + 1, [st EXCEPT !.atom = FALSE])
         ELSE IF c \in {"|", "^", "$"} THEN
             RegexScan(src, i + 1, [st EXCEPT !.atom = FALSE])
         ELSE RegexScan(src, i + 1, [st EXCEPT !.atom = TRUE])

RegexSyntaxOk(src) == RegexScan(src, 1, [depth |-> 0, cls |-> FALSE, atom |-> FALSE])

----------------------------------------------------------------------------
(* JavaScript values: [type, str].  A string carries its characters; a     *)
(* number or boolean carries its literal text; the others carry nothing.   *)

Str(s) == [type |-> "string", str |-> s]

Undefined == [type |-> "undefined", str |-> <<>>]

Null == [type |-> "null", str |-> <<>>]

Num(s) == [type |-> "number", str |-> s]

Bool(s) == [type |-> "boolean", str |-> s]

Obj == [type |-> "object", str |-> <<>>]

\* ToBoolean
Truthy(v) ==
    CASE v.type = "string"  -> v.str # <<>>
      [] v.type = "number"  -> v.str \notin {<<"0">>, <<"N","a","N">>}
      [] v.type = "boolean" -> v.str = <<"t","r","u","e">>
      [] v.type = "object"  -> TRUE
      [] OTHER              -> FALSE

\* the outcome of a call: it returns a value or throws
Return(v) == [kind |-> "return", value |-> v]

Throw(e) == [kind |-> "throw", value |-> e]

----------------------------------------------------------------------------
(* new URL(url): the WHATWG URL parser without a base URL, as far as the   *)
(* hostname is concerned.  Modelled: tab/newline removal, the scheme, the  *)
(* authority of special and non-special schemes (userinfo, host, port),    *)
(* forbidden host code points, and lower-casing of a domain.  Not          *)
(* modelled: percent-decoding, IDNA, IPv4 and IPv6 literals, file: URLs.   *)

SpecialSchemes ==
    { <<"h","t","t","p">>, <<"h","t","t","p","s">>, <<"w","s">>, <<"w","s","s">>,
      <<"f","t","p">> }

SchemeChars == UpperCaseLetters \cup LowerCaseLetters \cup Digits \cup {"+", "-", "."}

ForbiddenHostCodePoints ==
    {" ", "#", "/", ":", "<", ">", "?", "@", "[", "\\", "]", "^", "|", "%",
     "\t", "\n", "\r"}

UrlFailure == [ok |-> FALSE, hostname |-> <<>>]

UrlHost(h) == [ok |-> TRUE, hostname |-> h]

\* the index of the ':' ending the scheme, or 0 when the input has no scheme
SchemeEnd(u) ==
    IF u = <<>> \/ u[1] \notin (UpperCaseLetters \cup LowerCaseLetters) THEN 0
    ELSE LET c == FirstOf(u, {":"})
         IN  IF c <= Len(u) /\ \A k \in 2..(c - 1) : u[k] \in SchemeChars THEN c ELSE 0

\* host and port of an authority (after any userinfo)
HostPort(authority) ==
    LET ats  == {i \in 1..Len(authority) : authority[i] = "@"}
        hp   == IF ats = {} THEN authority
                ELSE From(authority, 1 + CHOOSE i \in ats : \A j \in ats : j <= i)
        c    == FirstOf(hp, {":"})
    IN  [host |-> SubSeq(hp, 1, c - 1), port |-> From(hp, c + 1)]

\* the authority of a special scheme: any run of slashes, then up to / \ ? #
ParseSpecialAuthority(rest) ==
    LET r  == From(rest, FirstNotOf(rest, {"/", "\\"}))
        a  == SubSeq(r, 1, FirstOf(r, {"/", "\\", "?", "#"}) - 1)
        hp == HostPort(a)
    IN  IF hp.host = <<>> THEN UrlFailure
        ELSE IF \E i \in 1..Len(hp.host) : hp.host[i] \in ForbiddenHostCodePoints
            THEN UrlFailure
        ELSE IF \E i \in 1..Len(hp.port) : hp.port[i] \notin Digits THEN UrlFailure
        ELSE UrlHost(toLowerCase(hp.host))

\* new URL(u): [ok, hostname]; ok = FALSE when the constructor throws
ParseURL(url) ==
    LET u  == Without(url, {"\t", "\n", "\r"})
        se == SchemeEnd(u)
    IN  IF se = 0 THEN UrlFailure
        ELSE LET scheme == toLowerCase(SubSeq(u, 1, se - 1))
                 rest   == From(u, se + 1)
             IN  IF scheme \in SpecialSchemes THEN ParseSpecialAuthority(rest)
                 ELSE IF StartsWith(rest, <<"/", "/">>)
                     THEN LET r == From(rest, 3)
                              a == SubSeq(r, 1, FirstOf(r, {"/", "?", "#"}) - 1)
                          IN  UrlHost(HostPort(a).host)
                 ELSE UrlHost(<<>>)

----------------------------------------------------------------------------
(* The static filter lists (filters/youtube-ads) *)

\* AD_DOMAINS (24 entries)
AD_DOMAINS ==
  <<
    <<"g","o","o","g","l","e","s","y","n","d","i","c","a","t","i","o","n",".","c","o","m">>,  \* googlesyndication.com
    <<"g","o","o","g","l","e","a","d","s","e","r","v","i","c","e","s",".","c","o","m">>,  \* googleadservices.com
    <<"g","o","o","g","l","e","a","d","s",".","g",".","d","o","u","b","l","e","c","l","i","c","k",".","n","e","t">>,  \* googleads.g.doubleclick.net
    <<"d","o","u","b","l","e","c","l","i","c","k",".","n","e","t">>,  \* doubleclick.net
    <<"a","d",".","d","o","u","b","l","e","c","l","i","c","k",".","n","e","t">>,  \* ad.doubleclick.net
    <<"p","a","g","e","a","d","2",".","g","o","o","g","l","e","s","y","n","d","i","c","a","t","i","o","n",".","c","o","m">>,  \* pagead2.googlesyndication.com
    <<"a","d","s","e","r","v","i","c","e",".","g","o","o","g","l","e",".","c","o","m">>,  \* adservice.google.com
    <<"w","w","w",".","g","o","o","g","l","e","a","d","s","e","r","v","i","c","e","s",".","c","o","m">>,  \* www.googleadservices.com
    <<"g","o","o","g","l","e","-","a","n","a","l","y","t","i","c","s",".","c","o","m">>,  \* google-analytics.com
    <<"g","o","o","g","l","e","t","a","g","m","a","n","a","g","e","r",".","c","o","m">>,  \* googletagmanager.com
    <<"g","o","o","g","l","e","t","a","g","s","e","r","v","i","c","e","s",".","c","o","m">>,  \* googletagservices.com
    <<"y","o","u","t","u","b","e",".","c","l","e","v","e","r","a","d","s",".","v","n">>,  \* youtube.cleverads.vn
    <<"y","t","3",".","g","g","p","h","t",".","c","o","m">>,  \* yt3.ggpht.com
    <<"s","e","r","v","i","n","g","-","s","y","s",".","c","o","m">>,  \* serving-sys.com
    <<"a","d","v","e","r","t","i","s","i","n","g",".","c","o","m">>,  \* advertising.com
    <<"a","d","n","x","s",".","c","o","m">>,  \* adnxs.com
    <<"a","d","s","r","v","r",".","o","r","g">>,  \* adsrvr.org
    <<"b","i","d","s","w","i","t","c","h",".","n","e","t">>,  \* bidswitch.net
    <<"t","a","b","o","o","l","a",".","c","o","m">>,  \* taboola.com
    <<"o","u","t","b","r","a","i","n",".","c","o","m">>,  \* outbrain.com
    <<"c","r","i","t","e","o",".","c","o","m">>,  \* criteo.com
    <<"a","m","a","z","o","n","-","a","d","s","y","s","t","e","m",".","c","o","m">>,  \* amazon-adsystem.com
    <<"m","o","a","t","a","d","s",".","c","o","m">>,  \* moatads.com
    <<"s","c","o","r","e","c","a","r","d","r","e","s","e","a","r","c","h",".","c","o","m">>  \* scorecardresearch.com
  >>

\* AD_URL_PATTERNS (22 entries)
AD_URL_PATTERNS ==
  <<
    <<"/","a","p","i","/","s","t","a","t","s","/","a","d","s">>,  \* /api/stats/ads
    <<"/","a","p","i","/","s","t","a","t","s","/","q","o","e","?">>,  \* /api/stats/qoe?
    <<"/","p","a","g","e","a","d","/">>,  \* /pagead/
    <<"/","p","t","r","a","c","k","i","n","g">>,  \* /ptracking
    <<"/","g","e","t","_","v","i","d","e","o","_","i","n","f","o","?","*","a","d","f","o","r","m","a","t">>,  \* /get_video_info?*adformat
    <<"/","g","e","t","_","m","i","d","r","o","l","l","_","i","n","f","o">>,  \* /get_midroll_info
    <<"/","a","p","i","/","a","d","s","/">>,  \* /api/ads/
    <<"/","y","o","u","t","u","b","e","i","/","v","1","/","p","l","a","y","e","r","/","a","d","_","b","r","e","a","k">>,  \* /youtubei/v1/player/ad_break
    <<"&","a","d","_","t","y","p","e","=">>,  \* &ad_type=
    <<"&","a","d","u","r","l","=">>,  \* &adurl=
    <<"?","a","d","u","r","l","=">>,  \* ?adurl=
    <<"&","a","d","_","f","l","a","g","s","=">>,  \* &ad_flags=
    <<"a","n","n","o","t","a","t","i","o","n","_","i","d","=">>,  \* annotation_id=
    <<"&","c","t","a","_","t","y","p","e","=">>,  \* &cta_type=
    <<"/","g","e","n","_","2","0","4","?">>,  \* /gen_204?
    <<"/","l","o","g","_","e","v","e","n","t","?">>,  \* /log_event?
    <<"/","p","c","s","/","a","c","t","i","v","e","v","i","e","w">>,  \* /pcs/activeview
    <<"/","p","a","g","e","a","d","/","v","i","e","w","t","h","r","o","u","g","h","c","o","n","v","e","r","s","i","o","n">>,  \* /pagead/viewthroughconversion
    <<"/","b","a","s","e",".","j","s">>,  \* /base.js
    <<"/","d","e","s","k","t","o","p","_","p","o","l","y","m","e","r",".","j","s">>,  \* /desktop_polymer.js
    <<"&","a","d","s","i","d","=">>,  \* &adsid=
    <<"&","a","d","_","c","h","a","n","n","e","l","_","c","o","d","e","=">>  \* &ad_channel_code=
  >>

\* ALLOW_PATTERNS (4 entries)
ALLOW_PATTERNS ==
  <<
    <<"/","v","i","d","e","o","p","l","a","y","b","a","c","k","?">>,  \* /videoplayback?
    <<"/","m","a","n","i","f","e","s","t","/">>,  \* /manifest/
    <<"/","a","p","i","/","t","i","m","e","d","t","e","x","t">>,  \* /api/timedtext
    <<"/","g","e","n","e","r","a","t","e","_","2","0","4">>  \* /generate_204
  >>

----------------------------------------------------------------------------
(* UrlBlockerService *)

\* the reason texts of a verdict
ReasonDisabled == <<"B","l","o","c","k","i","n","g"," ","d","i","s","a","b","l","e","d">>

ReasonInvalid == <<"I","n","v","a","l","i","d"," ","U","R","L">>

ReasonAllow ==
    <<"M","a","t","c","h","e","d"," ","a","l","l","o","w"," ","p","a","t","t","e","r","n">>

ReasonDomainPrefix == <<"B","l","o","c","k","e","d"," ","d","o","m","a","i","n",":"," ">>

ReasonPattern ==
    <<"M","a","t","c","h","e","d"," ","b","l","o","c","k","e","d"," ","U","R","L"," ",
      "p","a","t","t","e","r","n">>

\* a BlockResult; an absent field is undefined
BlockResult(blocked, reason, matchedRule) ==
    [blocked |-> blocked, reason |-> reason, matchedRule |-> matchedRule]

NoRule == [type |-> "undefined", pattern |-> <<>>, regex |-> [source |-> <<>>, flags |-> ""]]

FilterRule(pattern, source) ==
    [type |-> "block", pattern |-> pattern, regex |-> [source |-> source, flags |-> ""]]

\* patternToRegex: escape the special characters except '*', turn each '*'
\* into '.*', compile case-insensitively
patternToRegex(pattern) ==
    LET escaped  == Flatten([i \in 1..Len(pattern) |->
                        IF pattern[i] \in RegexSpecials THEN <<"\\", pattern[i]>>
                        ELSE <<pattern[i]>>])
        regexStr == Flatten([i \in 1..Len(escaped) |->
                        IF escaped[i] = "*" THEN <<".", "*">> ELSE <<escaped[i]>>])
    IN  [source |-> regexStr, flags |-> "i"]

\* compileFilters: the custom rules of the configuration are not read
compileFilters(cfg) ==
    [blockedDomains  |-> {AD_DOMAINS[i] : i \in 1..Len(AD_DOMAINS)},
     blockedPatterns |-> [i \in 1..Len(AD_URL_PATTERNS) |-> patternToRegex(AD_URL_PATTERNS[i])],
     allowPatterns   |-> [i \in 1..Len(ALLOW_PATTERNS) |-> patternToRegex(ALLOW_PATTERNS[i])]]

\* url.match(/^(?:https?:\/\/)?([^\/\?]+)/i): group 1, or null.  The scheme
\* prefix is optional, so when nothing follows it the match backtracks and
\* captures from the start of the text.
FallbackMatch(url) ==
    LET low   == toLowerCase(url)
        pre   == IF StartsWith(low, <<"h","t","t","p","s",":","/","/">>) THEN 8
                 ELSE IF StartsWith(low, <<"h","t","t","p",":","/","/">>) THEN 7
                 ELSE 0
        after == From(url, pre + 1)
        cap   == SubSeq(after, 1, FirstOf(after, {"/", "?"}) - 1)
        cap0  == SubSeq(url, 1, FirstOf(url, {"/", "?"}) - 1)
    IN  IF cap # <<>> THEN Str(cap)
        ELSE IF cap0 # <<>> THEN Str(cap0)
        ELSE Null

\* extractDomain without its fallback
extractDomain_NoFallback(url) ==
    LET urlObj == ParseURL(url)
    IN  IF urlObj.ok THEN Str(toLowerCase(urlObj.hostname)) ELSE Null

\* extractDomain: the lower-cased hostname, by URL parsing or by the fallback
extractDomain(url) ==
    LET urlObj == ParseURL(url)
    IN  IF urlObj.ok THEN Str(toLowerCase(urlObj.hostname))
        ELSE LET match == FallbackMatch(url)
             IN  IF Truthy(match) THEN Str(toLowerCase(match.str)) ELSE Null

\* domain.split('.')
RECURSIVE SplitDots(_)
SplitDots(s) ==
    LET d == FirstOf(s, {"."})
    IN  IF d > Len(s) THEN <<s>>
        ELSE <<SubSeq(s, 1, d - 1)>> \o SplitDots(From(s, d + 1))

\* parts.join('.')
RECURSIVE JoinDots(_)
JoinDots(parts) ==
    IF parts = <<>> THEN <<>>
    ELSE IF Len(parts) = 1 THEN parts[1]
    ELSE parts[1] \o <<".">> \o JoinDots(Tail(parts))

\* isDomainBlocked without the direct match
isDomainBlocked_ParentsOnly(flt, domain) ==
    LET parts == SplitDots(domain)
    IN  \E i \in 1..(Len(parts) - 2) :
            JoinDots(From(parts, i + 1)) \in flt.blockedDomains

\* isDomainBlocked by domain.endsWith(blocked)
isDomainBlocked_EndsWith(flt, domain) ==
    \E D \in flt.blockedDomains :
        Len(domain) >= Len(D) /\ From(domain, Len(domain) - Len(D) + 1) = D

\* isDomainBlocked with the loop running up to the last label
isDomainBlocked_AllSuffixes(flt, domain) ==
    \/ domain \in flt.blockedDomains
    \/ LET parts == SplitDots(domain)
       IN  \E i \in 1..(Len(parts) - 1) :
               JoinDots(From(parts, i + 1)) \in flt.blockedDomains

\* isDomainBlocked: a direct match, or a parent domain parts.slice(i).join('.')
\* for 1 <= i < parts.length - 1 (0-based i)
isDomainBlocked(flt, domain) ==
    \/ domain \in flt.blockedDomains
    \/ LET parts == SplitDots(domain)
       IN  \E i \in 1..(Len(parts) - 2) :
               JoinDots(From(parts, i + 1)) \in flt.blockedDomains

matchesBlockedPattern(flt, url) ==
    \E i \in 1..Len(flt.blockedPatterns) : RegexTest(flt.blockedPatterns[i], url)

matchesAllowPattern(flt, url) ==
    \E i \in 1..Len(flt.allowPatterns) : RegexTest(flt.allowPatterns[i], url)

\* logBlocked that counts every blocked verdict, logged or not
logBlocked_CountAll(cfg, count) == count + 1

\* logBlocked: the counter after the call
logBlocked(cfg, count) == IF cfg.logBlocked THEN count + 1 ELSE count

\* shouldBlock with the block rules consulted before the allow patterns
shouldBlock_BlockFirst(cfg, flt, count, url) ==
    IF ~cfg.enabled THEN
        [outcome |-> Return(BlockResult(FALSE, Str(ReasonDisabled), NoRule)),
         blockedCount |-> count]
    ELSE IF ~Truthy(url) \/ url.type # "string" THEN
        [outcome |-> Return(BlockResult(FALSE, Str(ReasonInvalid), NoRule)),
         blockedCount |-> count]
    ELSE
        LET domain == extractDomain(url.str) IN
        IF Truthy(domain) /\ isDomainBlocked(flt, domain.str) THEN
            [outcome |->
                IF RegexSyntaxOk(domain.str)
                THEN Return(BlockResult(TRUE, Str(ReasonDomainPrefix \o domain.str),
                                        FilterRule(domain.str, domain.str)))
                ELSE Throw([name |-> "SyntaxError"]),
             blockedCount |-> logBlocked(cfg, count)]
        ELSE IF matchesBlockedPattern(flt, url.str) THEN
            [outcome |-> Return(BlockResult(TRUE, Str(ReasonPattern),
                                            FilterRule(url.str, <<>>))),
             blockedCount |-> logBlocked(cfg, count)]
        ELSE IF matchesAllowPattern(flt, url.str) THEN
            [outcome |-> Return(BlockResult(FALSE, Str(ReasonAllow), NoRule)),
         blockedCount |-> count]
        ELSE [outcome |-> Return(BlockResult(FALSE, Undefined, NoRule)),
              blockedCount |-> count]

\* shouldBlock with the invalid-input check before the disabled check
shouldBlock_InvalidFirst(cfg, flt, count, url) ==
    IF ~Truthy(url) \/ url.type # "string" THEN
        [outcome |-> Return(BlockResult(FALSE, Str(ReasonInvalid), NoRule)),
         blockedCount |-> count]
    ELSE IF ~cfg.enabled THEN
        [outcome |-> Return(BlockResult(FALSE, Str(ReasonDisabled), NoRule)),
         blockedCount |-> count]
    ELSE IF matchesAllowPattern(flt, url.str) THEN
        [outcome |-> Return(BlockResult(FALSE, Str(ReasonAllow), NoRule)),
         blockedCount |-> count]
    ELSE
        LET domain == extractDomain(url.str) IN
        IF Truthy(domain) /\ isDomainBlocked(flt, domain.str) THEN
            [outcome |->
                IF RegexSyntaxOk(domain.str)
                THEN Return(BlockResult(TRUE, Str(ReasonDomainPrefix \o domain.str),
                                        FilterRule(domain.str, domain.str)))
                ELSE Throw([name |-> "SyntaxError"]),
             blockedCount |-> logBlocked(cfg, count)]
        ELSE IF matchesBlockedPattern(flt, url.str) THEN
            [outcome |-> Return(BlockResult(TRUE, Str(ReasonPattern),
                                            FilterRule(url.str, <<>>))),
             blockedCount |-> logBlocked(cfg, count)]
        ELSE [outcome |-> Return(BlockResult(FALSE, Undefined, NoRule)),
              blockedCount |-> count]

\* shouldBlock without the typeof check
shouldBlock_NoTypeCheck(cfg, flt, count, url) ==
    IF ~cfg.enabled THEN
        [outcome |-> Return(BlockResult(FALSE, Str(ReasonDisabled), NoRule)),
         blockedCount |-> count]
    ELSE IF ~Truthy(url) THEN
        [outcome |-> Return(BlockResult(FALSE, Str(ReasonInvalid), NoRule)),
         blockedCount |-> count]
    ELSE IF matchesAllowPattern(flt, url.str) THEN
        [outcome |-> Return(BlockResult(FALSE, Str(ReasonAllow), NoRule)),
         blockedCount |-> count]
    ELSE
        LET domain == extractDomain(url.str) IN
        IF Truthy(domain) /\ isDomainBlocked(flt, domain.str) THEN
            [outcome |->
                IF RegexSyntaxOk(domain.str)
                THEN Return(BlockResult(TRUE, Str(ReasonDomainPrefix \o domain.str),
                                        FilterRule(domain.str, domain.str)))
                ELSE Throw([name |-> "SyntaxError"]),
             blockedCount |-> logBlocked(cfg, count)]
        ELSE IF matchesBlockedPattern(flt, url.str) THEN
            [outcome |-> Return(BlockResult(TRUE, Str(ReasonPattern),
                                            FilterRule(url.str, <<>>))),
             blockedCount |-> logBlocked(cfg, count)]
        ELSE [outcome |-> Return(BlockResult(FALSE, Undefined, NoRule)),
              blockedCount |-> count]

\* shouldBlock: [outcome, blockedCount].  The blocked-domain branch logs the
\* block and then builds `new RegExp(domain)`, which throws on a hostname
\* that is no regular expression.
shouldBlock(cfg, flt, count, url) ==
    IF ~cfg.enabled THEN
        [outcome |-> Return(BlockResult(FALSE, Str(ReasonDisabled), NoRule)),
         blockedCount |-> count]
    ELSE IF ~Truthy(url) \/ url.type # "string" THEN
        [outcome |-> Return(BlockResult(FALSE, Str(ReasonInvalid), NoRule)),
         blockedCount |-> count]
    ELSE IF matchesAllowPattern(flt, url.str) THEN
        [outcome |-> Return(BlockResult(FALSE, Str(ReasonAllow), NoRule)),
         blockedCount |-> count]
    ELSE LET domain == extractDomain(url.str) IN
        IF Truthy(domain) /\ isDomainBlocked(flt, domain.str) THEN
            [outcome |->
                IF RegexSyntaxOk(domain.str)
                THEN Return(BlockResult(TRUE, Str(ReasonDomainPrefix \o domain.str),
                                        FilterRule(domain.str, domain.str)))
                ELSE Throw([name |-> "SyntaxError"]),
             blockedCount |-> logBlocked(cfg, count)]
        ELSE IF matchesBlockedPattern(flt, url.str) THEN
            [outcome |-> Return(BlockResult(TRUE, Str(ReasonPattern),
                                            FilterRule(url.str, <<>>))),
             blockedCount |-> logBlocked(cfg, count)]
        ELSE [outcome |-> Return(BlockResult(FALSE, Undefined, NoRule)),
              blockedCount |-> count]

----------------------------------------------------------------------------
(* The content scripts: src/unnamed/part_006 (scripts/adRemoval) and the    *)
(* ScriptInjectorService that caches them                                  *)

YOUTUBE_AD_SELECTORS ==
  <<
    [selector    |-> <<".","v","i","d","e","o","-","a","d","s">>,
     action      |-> "remove",
     description |-> "Video ad container"],
    [selector    |-> <<".","y","t","p","-","a","d","-","m","o","d","u","l","e">>,
     action      |-> "remove",
     description |-> "Ad module in player"],
    [selector    |-> <<".","y","t","p","-","a","d","-","o","v","e","r","l","a","y","-","c","o",
                        "n","t","a","i","n","e","r">>,
     action      |-> "remove",
     description |-> "Overlay ads"],
    [selector    |-> <<".","y","t","p","-","a","d","-","t","e","x","t","-","o","v","e","r","l",
                        "a","y">>,
     action      |-> "remove",
     description |-> "Text overlay"],
    [selector    |-> <<".","y","t","p","-","a","d","-","p","l","a","y","e","r","-","o","v","e",
                        "r","l","a","y">>,
     action      |-> "remove",
     description |-> "Player overlay"],
    [selector    |-> <<"y","t","m","u","s","i","c","-","p","l","a","y","e","r","-","b","a","r",
                        "[","h","a","s","-","a","d","s","]">>,
     action      |-> "hide",
     description |-> "Player bar ads"],
    [selector    |-> <<"y","t","d","-","p","r","o","m","o","t","e","d","-","s","p","a","r","k",
                        "l","e","s","-","w","e","b","-","r","e","n","d","e","r","e","r">>,
     action      |-> "remove",
     description |-> "Promoted"],
    [selector    |-> <<"y","t","d","-","d","i","s","p","l","a","y","-","a","d","-","r","e","n",
                        "d","e","r","e","r">>,
     action      |-> "remove",
     description |-> "Display ad"],
    [selector    |-> <<"y","t","d","-","a","d","-","s","l","o","t","-","r","e","n","d","e","r",
                        "e","r">>,
     action      |-> "remove",
     description |-> "Ad slot"],
    [selector    |-> <<"#","m","a","s","t","h","e","a","d","-","a","d">>,
     action      |-> "remove",
     description |-> "Masthead"]
  >>

\* parts.join(sep)
RECURSIVE Join(_, _)
Join(parts, sep) ==
    IF parts = <<>> THEN <<>>
    ELSE IF Len(parts) = 1 THEN parts[1]
    ELSE parts[1] \o sep \o Join(Tail(parts), sep)

\* YOUTUBE_AD_SELECTORS.map(s => s.selector).join(',')
SelectorList ==
    Join([i \in 1..Len(YOUTUBE_AD_SELECTORS) |-> YOUTUBE_AD_SELECTORS[i].selector], <<",">>)

\* the template of generateAdRemovalScript before and after ${selectors}
AdRemovalScriptHead ==
    <<"\n","(","f","u","n","c","t","i","o","n","(",")"," ","{","\n"," "," ","'",
      "u","s","e"," ","s","t","r","i","c","t","'",";","\n"," "," ","\n"," "," ",
      "c","o","n","s","t"," ","S","E","L","E","C","T","O","R","S"," ","="," ",
      "'">>

AdRemovalScriptTail ==
    <<"'",";","\n"," "," ","l","e","t"," ","l","a","s","t","C","h","e","c","k",
      " ","="," ","0",";","\n"," "," ","\n"," "," ","/","/"," ","R","e","m","o",
      "v","e"," ","a","d"," ","e","l","e","m","e","n","t","s","\n"," "," ","f",
      "u","n","c","t","i","o","n"," ","r","e","m","o","v","e","A","d","s","(",
      ")"," ","{","\n"," "," "," "," ","t","r","y"," ","{","\n"," "," "," "," ",
      " "," ","d","o","c","u","m","e","n","t",".","q","u","e","r","y","S","e",
      "l","e","c","t","o","r","A","l","l","(","S","E","L","E","C","T","O","R",
      "S",")",".","f","o","r","E","a","c","h","(","e","l"," ","=",">"," ","{",
      "\n"," "," "," "," "," "," "," "," ","e","l",".","s","t","y","l","e",".",
      "c","s","s","T","e","x","t"," ","="," ","'","d","i","s","p","l","a","y",
      ":","n","o","n","e","!","i","m","p","o","r","t","a","n","t",";","h","e",
      "i","g","h","t",":","0","!","i","m","p","o","r","t","a","n","t",";","'",
      ";","\n"," "," "," "," "," "," ","}",")",";","\n"," "," "," "," ","}"," ",
      "c","a","t","c","h","(","e",")"," ","{","}","\n"," "," ","}","\n"," "," ",
      "\n"," "," ","/","/"," ","S","k","i","p"," ","v","i","d","e","o"," ","a",
      "d","s"," ","-"," ","T","H","I","S"," ","I","S"," ","C","R","I","T","I",
      "C","A","L","\n"," "," ","f","u","n","c","t","i","o","n"," ","s","k","i",
      "p","V","i","d","e","o","A","d","(",")"," ","{","\n"," "," "," "," ","t",
      "r","y"," ","{","\n"," "," "," "," "," "," ","/","/"," ","C","l","i","c",
      "k"," ","s","k","i","p"," ","b","u","t","t","o","n","\n"," "," "," "," ",
      " "," ","c","o","n","s","t"," ","s","k","i","p","B","t","n"," ","="," ",
      "d","o","c","u","m","e","n","t",".","q","u","e","r","y","S","e","l","e",
      "c","t","o","r","(","'",".","y","t","p","-","a","d","-","s","k","i","p",
      "-","b","u","t","t","o","n",","," ",".","y","t","p","-","s","k","i","p",
      "-","a","d","-","b","u","t","t","o","n",","," ",".","y","t","p","-","a",
      "d","-","s","k","i","p","-","b","u","t","t","o","n","-","m","o","d","e",
      "r","n",","," ","[","c","l","a","s","s","*","=","\"","s","k","i","p","-",
      "b","u","t","t","o","n","\"","]","'",")",";","\n"," "," "," "," "," "," ",
      "i","f"," ","(","s","k","i","p","B","t","n",")"," ","{","\n"," "," "," ",
      " "," "," "," "," ","s","k","i","p","B","t","n",".","c","l","i","c","k",
      "(",")",";","\n"," "," "," "," "," "," "," "," ","r","e","t","u","r","n",
      ";","\n"," "," "," "," "," "," ","}","\n"," "," "," "," "," "," ","\n"," ",
      " "," "," "," "," ","/","/"," ","C","h","e","c","k"," ","i","f"," ","a",
      "d"," ","i","s"," ","p","l","a","y","i","n","g","\n"," "," "," "," "," ",
      " ","c","o","n","s","t"," ","a","d","P","l","a","y","i","n","g"," ","=",
      " ","d","o","c","u","m","e","n","t",".","q","u","e","r","y","S","e","l",
      "e","c","t","o","r","(","'",".","a","d","-","s","h","o","w","i","n","g",
      ","," ",".","a","d","-","i","n","t","e","r","r","u","p","t","i","n","g",
      ","," ","[","c","l","a","s","s","*","=","\"","a","d","-","s","h","o","w",
      "i","n","g","\"","]","'",")",";","\n"," "," "," "," "," "," ","c","o","n",
      "s","t"," ","v","i","d","e","o"," ","="," ","d","o","c","u","m","e","n",
      "t",".","q","u","e","r","y","S","e","l","e","c","t","o","r","(","'","v",
      "i","d","e","o","'",")",";","\n"," "," "," "," "," "," ","\n"," "," "," ",
      " "," "," ","i","f"," ","(","a","d","P","l","a","y","i","n","g"," ","&",
      "&"," ","v","i","d","e","o"," ","&","&"," ","v","i","d","e","o",".","d",
      "u","r","a","t","i","o","n",")"," ","{","\n"," "," "," "," "," "," "," ",
      " ","/","/"," ","S","k","i","p"," ","t","o"," ","e","n","d"," ","o","f",
      " ","a","d","\n"," "," "," "," "," "," "," "," ","v","i","d","e","o",".",
      "c","u","r","r","e","n","t","T","i","m","e"," ","="," ","v","i","d","e",
      "o",".","d","u","r","a","t","i","o","n",";","\n"," "," "," "," "," "," ",
      " "," ","v","i","d","e","o",".","p","l","a","y","b","a","c","k","R","a",
      "t","e"," ","="," ","1","6",";","\n"," "," "," "," "," "," ","}","\n"," ",
      " "," "," ","}"," ","c","a","t","c","h","(","e",")"," ","{","}","\n"," ",
      " ","}","\n"," "," ","\n"," "," ","/","/"," ","T","h","r","o","t","t","l",
      "e","d"," ","c","h","e","c","k"," ","(","r","u","n","s"," ","m","a","x",
      " ","e","v","e","r","y"," ","5","0","0","m","s",")","\n"," "," ","f","u",
      "n","c","t","i","o","n"," ","c","h","e","c","k","A","d","s","(",")"," ",
      "{","\n"," "," "," "," ","c","o","n","s","t"," ","n","o","w"," ","="," ",
      "D","a","t","e",".","n","o","w","(",")",";","\n"," "," "," "," ","i","f",
      " ","(","n","o","w"," ","-"," ","l","a","s","t","C","h","e","c","k"," ",
      "<"," ","5","0","0",")"," ","r","e","t","u","r","n",";","\n"," "," "," ",
      " ","l","a","s","t","C","h","e","c","k"," ","="," ","n","o","w",";","\n",
      " "," "," "," ","\n"," "," "," "," ","r","e","m","o","v","e","A","d","s",
      "(",")",";","\n"," "," "," "," ","s","k","i","p","V","i","d","e","o","A",
      "d","(",")",";","\n"," "," ","}","\n"," "," ","\n"," "," ","/","/"," ","O",
      "b","s","e","r","v","e"," ","D","O","M"," ","c","h","a","n","g","e","s",
      "\n"," "," ","f","u","n","c","t","i","o","n"," ","s","t","a","r","t","O",
      "b","s","e","r","v","e","r","(",")"," ","{","\n"," "," "," "," ","c","o",
      "n","s","t"," ","o","b","s","e","r","v","e","r"," ","="," ","n","e","w",
      " ","M","u","t","a","t","i","o","n","O","b","s","e","r","v","e","r","(",
      "c","h","e","c","k","A","d","s",")",";","\n"," "," "," "," ","o","b","s",
      "e","r","v","e","r",".","o","b","s","e","r","v","e","(","d","o","c","u",
      "m","e","n","t",".","d","o","c","u","m","e","n","t","E","l","e","m","e",
      "n","t",","," ","{","\n"," "," "," "," "," "," ","c","h","i","l","d","L",
      "i","s","t",":"," ","t","r","u","e",",","\n"," "," "," "," "," "," ","s",
      "u","b","t","r","e","e",":"," ","t","r","u","e",",","\n"," "," "," "," ",
      " "," ","a","t","t","r","i","b","u","t","e","s",":"," ","t","r","u","e",
      ",","\n"," "," "," "," "," "," ","a","t","t","r","i","b","u","t","e","F",
      "i","l","t","e","r",":"," ","[","'","c","l","a","s","s","'","]","\n"," ",
      " "," "," ","}",")",";","\n"," "," ","}","\n"," "," ","\n"," "," ","/","/",
      " ","I","n","i","t","\n"," "," ","f","u","n","c","t","i","o","n"," ","i",
      "n","i","t","(",")"," ","{","\n"," "," "," "," ","r","e","m","o","v","e",
      "A","d","s","(",")",";","\n"," "," "," "," ","s","k","i","p","V","i","d",
      "e","o","A","d","(",")",";","\n"," "," "," "," ","s","t","a","r","t","O",
      "b","s","e","r","v","e","r","(",")",";","\n"," "," "," "," ","\n"," "," ",
      " "," ","/","/"," ","B","a","c","k","u","p",":"," ","c","h","e","c","k",
      " ","e","v","e","r","y"," ","2","s"," ","f","o","r"," ","v","i","d","e",
      "o"," ","a","d","s"," ","t","h","a","t"," ","s","l","i","p"," ","t","h",
      "r","o","u","g","h","\n"," "," "," "," ","s","e","t","I","n","t","e","r",
      "v","a","l","(","s","k","i","p","V","i","d","e","o","A","d",","," ","2",
      "0","0","0",")",";","\n"," "," ","}","\n"," "," ","\n"," "," ","i","f"," ",
      "(","d","o","c","u","m","e","n","t",".","r","e","a","d","y","S","t","a",
      "t","e"," ","=","=","="," ","'","l","o","a","d","i","n","g","'",")"," ",
      "{","\n"," "," "," "," ","d","o","c","u","m","e","n","t",".","a","d","d",
      "E","v","e","n","t","L","i","s","t","e","n","e","r","(","'","D","O","M",
      "C","o","n","t","e","n","t","L","o","a","d","e","d","'",","," ","i","n",
      "i","t",")",";","\n"," "," ","}"," ","e","l","s","e"," ","{","\n"," "," ",
      " "," ","i","n","i","t","(",")",";","\n"," "," ","}","\n","}",")","(",")",
      ";","\n","t","r","u","e",";","\n">>

generateAdRemovalScript == AdRemovalScriptHead \o SelectorList \o AdRemovalScriptTail

\* the template of generateAdHidingCSS after ${selectors}
AdHidingCSSTail ==
    <<",",".","a","d","-","s","h","o","w","i","n","g"," ","v","i","d","e","o",
      "{","d","i","s","p","l","a","y",":","n","o","n","e","!","i","m","p","o",
      "r","t","a","n","t",";","h","e","i","g","h","t",":","0","!","i","m","p",
      "o","r","t","a","n","t",";","}">>

\* the selector list without its first entry
generateAdHidingCSS_DropFirst ==
    Join([i \in 1..(Len(YOUTUBE_AD_SELECTORS) - 1) |->
            YOUTUBE_AD_SELECTORS[i + 1].selector], <<",">>)
        \o AdHidingCSSTail

generateAdHidingCSS == SelectorList \o AdHidingCSSTail

\* the template of generatePreloadScript before and after ${css}
PreloadScriptHead ==
    <<"\n","(","f","u","n","c","t","i","o","n","(",")","{","\n"," "," ","v","a",
      "r"," ","s","=","d","o","c","u","m","e","n","t",".","c","r","e","a","t",
      "e","E","l","e","m","e","n","t","(","'","s","t","y","l","e","'",")",";",
      "\n"," "," ","s",".","t","e","x","t","C","o","n","t","e","n","t","=","'">>

PreloadScriptTail ==
    <<"'",";","\n"," "," ","(","d","o","c","u","m","e","n","t",".","h","e","a",
      "d","|","|","d","o","c","u","m","e","n","t",".","d","o","c","u","m","e",
      "n","t","E","l","e","m","e","n","t",")",".","a","p","p","e","n","d","C",
      "h","i","l","d","(","s",")",";","\n","}",")","(",")",";","\n","t","r","u",
      "e",";","\n">>

\* generateAdHidingCSS().replace(/'/g, "\\'")
generatePreloadScript ==
    LET text == generateAdHidingCSS
        css  == Flatten([i \in 1..Len(text) |->
                    IF text[i] = "'" THEN <<"\\", "'">> ELSE <<text[i]>>])
    IN  PreloadScriptHead \o css \o PreloadScriptTail

\* a new ScriptInjectorService
NewInjector == [cachedMainScript |-> Null, cachedPreloadScript |-> Null]

\* getMainScript that generates on every call
getMainScript_NoCache(inj) ==
    [injector  |-> [inj EXCEPT !.cachedMainScript = Str(generateAdRemovalScript)],
     ret       |-> Str(generateAdRemovalScript),
     generated |-> TRUE]

\* getMainScript: [injector, ret, generated], where generated tells that
\* generateAdRemovalScript ran
getMainScript(inj) ==
    IF ~Truthy(inj.cachedMainScript)
        THEN [injector  |-> [inj EXCEPT !.cachedMainScript = Str(generateAdRemovalScript)],
              ret       |-> Str(generateAdRemovalScript),
              generated |-> TRUE]
    ELSE [injector |-> inj, ret |-> inj.cachedMainScript, generated |-> FALSE]

getPreloadScript(inj) ==
    IF ~Truthy(inj.cachedPreloadScript)
        THEN [injector  |-> [inj EXCEPT !.cachedPreloadScript = Str(generatePreloadScript)],
              ret       |-> Str(generatePreloadScript),
              generated |-> FALSE]
    ELSE [injector |-> inj, ret |-> inj.cachedPreloadScript, generated |-> FALSE]

getInjectedJavaScript(inj) == getMainScript(inj)

getAdHidingCSS(inj) ==
    [injector |-> inj, ret |-> Str(generateAdHidingCSS), generated |-> FALSE]

clearCache(inj) ==
    [injector  |-> [inj EXCEPT !.cachedMainScript = Null, !.cachedPreloadScript = Null],
     ret       |-> Undefined,
     generated |-> FALSE]

\* the instance of getScriptInjector() and one of createScriptInjector()
Instances == {"shared", "created"}

NoInjectors == [i \in Instances |-> NewInjector]

\* runs: runs of generateAdRemovalScript since the construction or the last
\* clearCache; first: the first text getInjectedJavaScript returned;
\* cleared: clearCache was called after that
NoInjectorLog == [i \in Instances |-> [runs |-> 0, cleared |-> FALSE, first |-> Null]]

----------------------------------------------------------------------------
(* The script of generateAdRemovalScript running in the hosted page *)

\* `now - lastCheck < 500`
Throttle == 500

\* setInterval(skipVideoAd, 2000)
BackstopPeriod == 2000

\* Date.now() when the script is injected
LoadTime == 1000

\* the operations of the script that can fault in a page
Operations ==
    {"querySelectorAll", "querySelector", "click", "fastForward",
     "MutationObserver", "observe", "setInterval", "addEventListener"}

\* a page in which the operations of `faults` throw, before the injection.
\* runs, lastMutation and since are history: the times of the executions
\* the observer triggered, what the last mutation led to, and the time
\* between the last mutation and the check before it.
NewPage(readyState, faults) ==
    [phase        |-> "none",
     readyState   |-> readyState,
     faults       |-> faults,
     now          |-> LoadTime,
     ticks        |-> 0,
     lastCheck    |-> 0,
     observer     |-> FALSE,
     interval     |-> FALSE,
     nextFire     |-> 0,
     adsVisible   |-> TRUE,
     adPlaying    |-> TRUE,
     escaped      |-> FALSE,
     runs         |-> <<>>,
     lastMutation |-> "none",
     since        |-> 0]

\* no script has been injected
NoPage == NewPage("complete", {})

\* an exception leaves the script
Escape(pg) == [pg EXCEPT !.escaped = TRUE, !.phase = "failed"]

\* removeAds: hide the ad elements; an exception is caught
removeAds(pg) ==
    IF "querySelectorAll" \in pg.faults THEN pg
    ELSE [pg EXCEPT !.adsVisible = FALSE]

\* skipVideoAd: click the skip button or move the video to its end; an
\* exception is caught
skipVideoAd(pg) ==
    IF pg.faults \cap {"querySelector", "click", "fastForward"} # {} THEN pg
    ELSE [pg EXCEPT !.adPlaying = FALSE]

\* checkAds that does not record the time of the check
checkAds_NoStamp(pg) ==
    LET since == pg.now - pg.lastCheck
    IN  IF since < Throttle
            THEN [pg EXCEPT !.lastMutation = "skipped", !.since = since]
        ELSE skipVideoAd(removeAds(
                [pg EXCEPT !.runs = Append(@, pg.now),
                           !.lastMutation = "worked", !.since = since]))

\* checkAds, the callback of the observer
checkAds(pg) ==
    LET since == pg.now - pg.lastCheck
    IN  IF since < Throttle
            THEN [pg EXCEPT !.lastMutation = "skipped", !.since = since]
        ELSE skipVideoAd(removeAds(
                [pg EXCEPT !.lastCheck = pg.now,
                           !.runs = Append(@, pg.now),
                           !.lastMutation = "worked", !.since = since]))

\* startObserver: nothing catches an exception of `new MutationObserver`
\* or of `observer.observe`
startObserver(pg) ==
    IF pg.faults \cap {"MutationObserver", "observe"} # {} THEN Escape(pg)
    ELSE [pg EXCEPT !.observer = TRUE]

\* init: nothing catches an exception of startObserver or of setInterval
init(pg) ==
    LET started == startObserver(skipVideoAd(removeAds(pg)))
    IN  IF started.escaped THEN started
        ELSE IF "setInterval" \in pg.faults THEN Escape(started)
        ELSE [started EXCEPT !.interval = TRUE,
                             !.nextFire = pg.now + BackstopPeriod,
                             !.phase = "running"]

----------------------------------------------------------------------------
(* The request-interception hook of the WebView *)

\* the hook that answers 'proceed' for every request
handleShouldStartLoadWithRequest_AlwaysProceed(result) ==
    IF result.kind = "throw" THEN result ELSE Return(Bool(<<"t","r","u","e">>))

\* handleShouldStartLoadWithRequest once `urlBlocker.shouldBlock(requestUrl)`
\* has answered with `result`: an exception of shouldBlock is not caught
handleShouldStartLoadWithRequest(result) ==
    IF result.kind = "throw" THEN result
    ELSE IF result.value.blocked THEN Return(Bool(<<"f","a","l","s","e">>))
    ELSE Return(Bool(<<"t","r","u","e">>))

----------------------------------------------------------------------------
(* The calls made on the engine *)

StringInputs ==
  {
    Str(<<>>),  \* the empty string
    Str(<<"h","t","t","p","s",":","/","/","m","u","s","i","c",".","y","o","u","t","u","b","e",".","c","o","m","/">>),  \* https://music.youtube.com/
    Str(<<"h","t","t","p","s",":","/","/","x",".","t","e","s","t","/","w","a","t","c","h","?","v","=","1">>),  \* https://x.test/watch?v=1
    Str(<<"a","b","o","u","t",":","b","l","a","n","k">>),  \* about:blank
    Str(<<"h","t","t","p","s",":","/","/","d","o","u","b","l","e","c","l","i","c","k",".","n","e","t","/","p","a","t","h">>),  \* https://doubleclick.net/path
    Str(<<"h","t","t","p","s",":","/","/","D","o","u","b","l","e","C","l","i","c","k",".","N","E","T","/","x">>),  \* https://DoubleClick.NET/x
    Str(<<"h","t","t","p","s",":","/","/","a","d","s",".","d","o","u","b","l","e","c","l","i","c","k",".","n","e","t","/","x">>),  \* https://ads.doubleclick.net/x
    Str(<<"h","t","t","p","s",":","/","/","u","s","e","r","@","a","d","n","x","s",".","c","o","m",":","8","0","8","0","/","x">>),  \* https://user@adnxs.com:8080/x
    Str(<<"h","t","t","p","s",":","/","/","n","o","t","g","o","o","g","l","e","a","d","s","e","r","v","i","c","e","s",".","c","o","m",".","e","v","i","l",".","t","e","s","t","/","x">>),  \* https://notgoogleadservices.com.evil.test/x
    Str(<<"h","t","t","p","s",":","/","/","x",".","t","e","s","t","/","w","a","t","c","h","?","v","=","1","&","a","d","_","t","y","p","e","=","s","k","i","p","p","a","b","l","e">>),  \* https://x.test/watch?v=1&ad_type=skippable
    Str(<<"h","t","t","p","s",":","/","/","x",".","t","e","s","t","/","a","p","i","/","s","t","a","t","s","/","a","d","s">>),  \* https://x.test/api/stats/ads
    Str(<<"h","t","t","p","s",":","/","/","x",".","t","e","s","t","/","g","e","t","_","v","i","d","e","o","_","i","n","f","o","?","x","=","1","&","a","d","f","o","r","m","a","t","=","2">>),  \* https://x.test/get_video_info?x=1&adformat=2
    Str(<<"h","t","t","p","s",":","/","/","x",".","t","e","s","t","/","v","i","d","e","o","p","l","a","y","b","a","c","k","?","i","d","=","1","&","a","d","_","t","y","p","e","=","2">>),  \* https://x.test/videoplayback?id=1&ad_type=2
    Str(<<"h","t","t","p","s",":","/","/","d","o","u","b","l","e","c","l","i","c","k",".","n","e","t","/","v","i","d","e","o","p","l","a","y","b","a","c","k","?","x">>),  \* https://doubleclick.net/videoplayback?x
    Str(<<"h","t","t","p","s",":","/","/","x",".","t","e","s","t","/","V","i","d","e","o","P","l","a","y","b","a","c","k","?","a">>),  \* https://x.test/VideoPlayback?a
    Str(<<"h","t","t","p","s",":","/","/","t","a","b","o","o","l","a",".","c","o","m","/","m","a","n","i","f","e","s","t","/","&","a","d","u","r","l","=","1">>),  \* https://taboola.com/manifest/&adurl=1
    Str(<<"/","p","a","g","e","a","d","/","x">>),  \* /pagead/x
    Str(<<"d","o","u","b","l","e","c","l","i","c","k",".","n","e","t","/","x">>),  \* doubleclick.net/x
    Str(<<"x",".","t","e","s","t","/","w","a","t","c","h">>),  \* x.test/watch
    Str(<<"/","v","i","d","e","o","p","l","a","y","b","a","c","k","?","x">>),  \* /videoplayback?x
    Str(<<"/","x">>),  \* /x
    Str(<<"h","t","t","p","s",":","/","/">>),  \* https://
    Str(<<"h","t","t","p","s",":","/","/","?","a","d","u","r","l","=","1">>),  \* https://?adurl=1
    Str(<<"h","t","t","p","s",":","/","/","(",".","d","o","u","b","l","e","c","l","i","c","k",".","n","e","t","/","x">>),  \* https://(.doubleclick.net/x
    Str(<<"h","t","t","p","s",":","/","/","*",".","c","r","i","t","e","o",".","c","o","m","/","x">>),  \* https://*.criteo.com/x
    Str(<<"[",".","d","o","u","b","l","e","c","l","i","c","k",".","n","e","t","/","x">>),  \* [.doubleclick.net/x
    Str(<<"h","t","t","p","s",":","/","/","[","a","d","s","]",".","a","d","n","x","s",".","c","o","m","/","x">>),  \* https://[ads].adnxs.com/x
    Str(<<"h","t","t","p","s",":","/","/","x",".","t","e","s","t","/","s","p","o","n","s","o","r","e","d","/","1">>),  \* https://x.test/sponsored/1
    Str(<<"h","t","t","p","s",":","/","/","a","d","s",".","d","o","u","b","l","e","c","l","i","c","k",".","n","e","t","/","p","a","g","e","a","d","/","x">>),  \* https://ads.doubleclick.net/pagead/x
    Str(<<"h","t","t","p","s",":","/","/","(",".","d","o","u","b","l","e","c","l","i","c","k",".","n","e","t","/","p","a","g","e","a","d","/","x">>)  \* https://(.doubleclick.net/pagead/x
  }

\* values that are no strings: undefined, null, 0, 42, NaN, false, true, {}
NonStringInputs ==
    { Undefined, Null, Num(<<"0">>), Num(<<"4","2">>), Num(<<"N","a","N">>),
      Bool(<<"f","a","l","s","e">>), Bool(<<"t","r","u","e">>), Obj }

Inputs == StringInputs \cup NonStringInputs

\* customRules of the configurations an engine is constructed with
CustomRuleSets == { <<>>, << <<"/","s","p","o","n","s","o","r","e","d","/">> >> }

\* { ...DEFAULT_CONFIG, ...config }
Configs == [enabled : BOOLEAN, logBlocked : BOOLEAN, customRules : CustomRuleSets]

\* a call that has been made and not yet answered
Pending == [kind |-> "pending", value |-> Undefined]

NoCall == [op |-> "new", arg |-> Undefined, ret |-> Return(Undefined)]

\* no URL is watched
NoRef == [arg |-> Undefined, phase |-> "unwatched", ret |-> Return(Undefined),
          offSeen |-> FALSE]

\* no request has been intercepted
NoHook == [request |-> Undefined, ret |-> Return(Undefined)]

\* `let instance = null`: no engine has been constructed, no reference handed out
NoBlockers == [dev |-> FALSE, instance |-> 0, heap |-> <<>>, refs |-> <<>>,
               shared |-> [enabled |-> TRUE, logged |-> 0]]

\* the App component is not rendered
NoApp == [phase |-> "none"]

\* the YouTubeWebView component after its first render
WebViewMounted ==
    [isInitialLoad |-> TRUE, canGoBackState |-> FALSE, isMounted |-> TRUE,
     timeoutRef |-> 0, timers |-> {}, armed |-> 0, now |-> 0, waits |-> 0,
     startedAt |-> 0, undisturbed |-> FALSE, ended |-> FALSE, onLoadEndCalls |-> 0]

\* the engine runs on one thread: a call is answered before the next is made
Idle == last.ret.kind # "pending"

\* the state after `new UrlBlockerService(config)`
Init ==
    /\ config \in Configs
    /\ filters = compileFilters(config)
    /\ blockedCount = 0
    /\ last = NoCall
    /\ blockedReturns = 0
    /\ ref = NoRef
    /\ hook = NoHook
    /\ webView = WebViewMounted
    /\ injector = NoInjectors
    /\ injectorLog = NoInjectorLog
    /\ page = NoPage
    /\ blockers = NoBlockers
    /\ app = NoApp

\* the WebView intercepts a request: the hook calls shouldBlock(url)
Request(url) ==
    /\ Idle
    /\ blockedCount < MaxCount
    /\ blockedReturns < MaxCount
    /\ last' = [op |-> "shouldBlock", arg |-> url, ret |-> Pending]
    /\ hook' = [request |-> url, ret |-> Pending]
    /\ UNCHANGED <<config, filters, blockedCount, blockedReturns, ref, webView,
                   injector, injectorLog, page, blockers, app>>

\* the history of the watched URL after a call is answered
RefAfterCall(url, outcome) ==
    IF ref.phase = "watching" /\ config.enabled /\ url = ref.arg
        THEN [ref EXCEPT !.phase = "seen", !.ret = outcome]
    ELSE IF ref.phase = "off" /\ url = ref.arg THEN [ref EXCEPT !.offSeen = TRUE]
    ELSE ref

\* shouldBlock runs and returns or throws
ShouldBlock ==
    /\ last.op = "shouldBlock"
    /\ last.ret = Pending
    /\ LET r == shouldBlock(config, filters, blockedCount, last.arg)
           blockedTrue == r.outcome.kind = "return" /\ r.outcome.value.blocked
       IN  /\ blockedCount' = r.blockedCount
           /\ last' = [last EXCEPT !.ret = r.outcome]
           /\ blockedReturns' = IF blockedTrue THEN blockedReturns + 1 ELSE blockedReturns
           /\ ref' = RefAfterCall(last.arg, r.outcome)
           /\ hook' = [hook EXCEPT !.ret = handleShouldStartLoadWithRequest(r.outcome)]
    /\ UNCHANGED <<config, filters, webView,
                   injector, injectorLog, page, blockers, app>>

\* onNavigationStateChange of the mounted component
HandleNavigationStateChange(canGoBack) ==
    /\ Idle
    /\ webView.canGoBackState # canGoBack
    /\ webView' = [webView EXCEPT !.canGoBackState = canGoBack]
    /\ UNCHANGED <<config, filters, blockedCount, last, blockedReturns, ref, hook,
                   injector, injectorLog, page, blockers, app>>

\* setEnabled that drops the compiled filters while the engine is off
SetEnabled_Recompile(enabled) ==
    /\ Idle
    /\ config' = [config EXCEPT !.enabled = enabled]
    /\ filters' = IF enabled THEN compileFilters(config)
                  ELSE [filters EXCEPT !.blockedDomains = {}]
    /\ last' = [op |-> "setEnabled",
                arg |-> Bool(IF enabled THEN <<"t","r","u","e">> ELSE <<"f","a","l","s","e">>),
                ret |-> Return(Undefined)]
    /\ ref' = IF ref.phase = "seen" /\ ~enabled THEN [ref EXCEPT !.phase = "off"]
              ELSE IF ref.phase = "off" /\ enabled THEN [ref EXCEPT !.phase = "back"]
              ELSE ref
    /\ UNCHANGED <<blockedCount, blockedReturns, hook, webView,
                   injector, injectorLog, page, blockers, app>>

\* setEnabled(enabled)
SetEnabled(enabled) ==
    /\ Idle
    /\ config' = [config EXCEPT !.enabled = enabled]
    /\ last' = [op |-> "setEnabled",
                arg |-> Bool(IF enabled THEN <<"t","r","u","e">> ELSE <<"f","a","l","s","e">>),
                ret |-> Return(Undefined)]
    /\ ref' = IF ref.phase = "seen" /\ ~enabled THEN [ref EXCEPT !.phase = "off"]
              ELSE IF ref.phase = "off" /\ enabled THEN [ref EXCEPT !.phase = "back"]
              ELSE ref
    /\ UNCHANGED <<filters, blockedCount, blockedReturns, hook, webView,
                   injector, injectorLog, page, blockers, app>>

\* getStats()
GetStats ==
    /\ Idle
    /\ last' = [op |-> "getStats", arg |-> Undefined,
                ret |-> Return([blockedCount |-> blockedCount, enabled |-> config.enabled])]
    /\ UNCHANGED <<config, filters, blockedCount, blockedReturns, ref, hook, webView,
                   injector, injectorLog, page, blockers, app>>

\* resetStats()
ResetStats ==
    /\ Idle
    /\ blockedCount' = 0
    /\ blockedReturns' = 0
    /\ last' = [op |-> "resetStats", arg |-> Undefined, ret |-> Return(Undefined)]
    /\ UNCHANGED <<config, filters, ref, hook, webView,
                   injector, injectorLog, page, blockers, app>>

Next ==
    \/ \E url \in Inputs : Request(url)
    \/ ShouldBlock
    \/ \E enabled \in BOOLEAN : SetEnabled(enabled)
    \/ GetStats
    \/ ResetStats
    \/ \E canGoBack \in BOOLEAN : HandleNavigationStateChange(canGoBack)

Spec == Init /\ [][Next]_vars

\* One URL is watched through disable/enable cycles: every call is made on it
InitToggle ==
    /\ config \in {c \in Configs : c.customRules = <<>>}
    /\ filters = compileFilters(config)
    /\ blockedCount = 0
    /\ last = NoCall
    /\ blockedReturns = 0
    /\ ref \in {[NoRef EXCEPT !.arg = url, !.phase = "watching"] : url \in Inputs}
    /\ hook = NoHook
    /\ webView = WebViewMounted
    /\ injector = NoInjectors
    /\ injectorLog = NoInjectorLog
    /\ page = NoPage
    /\ blockers = NoBlockers
    /\ app = NoApp

NextToggle ==
    \/ Request(ref.arg)
    \/ ShouldBlock
    \/ \E enabled \in BOOLEAN : SetEnabled(enabled)
    \/ GetStats
    \/ ResetStats

SpecToggle == InitToggle /\ [][NextToggle]_vars

----------------------------------------------------------------------------
(* The domain rule on URLs built from the blocked-domain list *)

\* leading labels are chains of at most MaxLabels labels
MaxLabels == 2

Https == <<"h","t","t","p","s",":","/","/">>

\* leading labels: letters, digits and hyphen in either case, and a label
\* that holds a regular-expression metacharacter
Labels == { <<"a","d","s">>, <<"A","-","1">>, <<"(">> }

RECURSIVE LabelChains(_)
LabelChains(n) ==
    IF n = 0 THEN {<<>>}
    ELSE LET shorter == LabelChains(n - 1)
         IN  shorter \cup {l \o <<".">> \o c : l \in Labels, c \in {x \in shorter : x # <<>>}}
                     \cup {l \o <<".">> : l \in Labels}

BlockedDomainList == {AD_DOMAINS[i] : i \in 1..Len(AD_DOMAINS)}

\* "https://" + D + "/path"
DirectInputs == {Str(Https \o D \o <<"/","p","a","t","h">>) : D \in BlockedDomainList}

\* "https://" + L1 + "." + ... + Ln + "." + D + "/x"
SubdomainInputs ==
    {Str(Https \o c \o D \o <<"/","x">>) :
        c \in (LabelChains(MaxLabels) \ {<<>>}), D \in BlockedDomainList}

\* hostnames that hold D glued to other text: "not"+D, D+"x", D+".evil.test"
SubstringInputs ==
    {Str(Https \o pre \o D \o post \o <<"/","x">>) :
        pre \in {<<>>, <<"n","o","t">>},
        post \in {<<"x">>, <<".","e","v","i","l",".","t","e","s","t">>},
        D \in BlockedDomainList}
    \cup {Str(Https \o <<"n","o","t">> \o D \o <<"/","x">>) : D \in BlockedDomainList}

DomainInputs == DirectInputs \cup SubdomainInputs \cup SubstringInputs

\* shouldBlock is called once on a URL of DomainInputs
InitDomains ==
    /\ config \in {c \in Configs : c.customRules = <<>>}
    /\ filters = compileFilters(config)
    /\ blockedCount = 0
    /\ last \in {[op |-> "shouldBlock", arg |-> url, ret |-> Pending] : url \in DomainInputs}
    /\ blockedReturns = 0
    /\ ref = NoRef
    /\ hook = [request |-> last.arg, ret |-> Pending]
    /\ webView = WebViewMounted
    /\ injector = NoInjectors
    /\ injectorLog = NoInjectorLog
    /\ page = NoPage
    /\ blockers = NoBlockers
    /\ app = NoApp

NextDomains == ShouldBlock

SpecDomains == InitDomains /\ [][NextDomains]_vars

----------------------------------------------------------------------------
(* The domain check on blocked sets that hold short entries *)

\* a hostname holds at most MaxHostLabels labels
MaxHostLabels == 3

\* labels of a hostname; the empty label stands between two dots and after
\* a trailing dot
HostLabels == {<<"a">>, <<"x">>, <<"n","e","t">>, <<>>}

RECURSIVE HostNames(_)
HostNames(n) ==
    IF n = 1 THEN HostLabels
    ELSE LET shorter == HostNames(n - 1)
         IN  shorter \cup {l \o <<".">> \o h : l \in HostLabels, h \in shorter}

\* entries of a blocked set: one label, two labels, three labels
BlockedEntries == {<<"n","e","t">>, <<"x">>, <<"x",".","n","e","t">>, <<"a",".","x",".","n","e","t">>}

\* isDomainBlocked is called once on a hostname and a blocked set
InitSuffix ==
    /\ config \in {c \in Configs : c.customRules = <<>> /\ c.enabled /\ ~c.logBlocked}
    /\ filters = compileFilters(config)
    /\ blockedCount = 0
    /\ last \in {[op |-> "isDomainBlocked",
                  arg |-> [blockedDomains |-> B, domain |-> h],
                  ret |-> Pending] :
                    B \in SUBSET BlockedEntries,
                    h \in (HostNames(MaxHostLabels) \ {<<>>})}
    /\ blockedReturns = 0
    /\ ref = NoRef
    /\ hook = NoHook
    /\ webView = WebViewMounted
    /\ injector = NoInjectors
    /\ injectorLog = NoInjectorLog
    /\ page = NoPage
    /\ blockers = NoBlockers
    /\ app = NoApp

\* isDomainBlocked(domain) on the blocked set of the call
IsDomainBlocked ==
    /\ last.op = "isDomainBlocked"
    /\ last.ret = Pending
    /\ last' = [last EXCEPT !.ret =
                    Return(isDomainBlocked([blockedDomains |-> last.arg.blockedDomains],
                                           last.arg.domain))]
    /\ UNCHANGED <<config, filters, blockedCount, blockedReturns, ref, hook, webView,
                   injector, injectorLog, page, blockers, app>>

NextSuffix == IsDomainBlocked

SpecSuffix == InitSuffix /\ [][NextSuffix]_vars

----------------------------------------------------------------------------
(* Hostname extraction on texts with and without a scheme *)

\* prefix + host + rest
ExtractInputs ==
    {Str(pre \o host \o rest) :
        pre  \in {<<>>, <<"h","t","t","p",":","/","/">>, <<"h","t","t","p","s",":","/","/">>, <<"H","T","T","P","S",":","/","/">>},
        host \in {<<>>, <<"d","o","u","b","l","e","c","l","i","c","k",".","n","e","t">>, <<"D","o","u","b","l","e","C","l","i","c","k",".","N","E","T">>,
                  <<"A","d","s",".","D","o","u","b","l","e","C","l","i","c","k",".","n","e","t">>, <<"x"," ","y">>, <<"X",".","t","e","s","t">>},
        rest \in {<<>>, <<"/","x">>, <<"?","a","=","1">>, <<"/","p","?","q">>}}
    \ {Str(<<>>)}

\* the hostname of a URL is extracted and looked up once
InitExtract ==
    /\ config \in {c \in Configs : c.customRules = <<>> /\ c.enabled /\ ~c.logBlocked}
    /\ filters = compileFilters(config)
    /\ blockedCount = 0
    /\ last \in {[op |-> "extractDomain", arg |-> url, ret |-> Pending] :
                    url \in ExtractInputs \cup (StringInputs \ {Str(<<>>)})}
    /\ blockedReturns = 0
    /\ ref = NoRef
    /\ hook = NoHook
    /\ webView = WebViewMounted
    /\ injector = NoInjectors
    /\ injectorLog = NoInjectorLog
    /\ page = NoPage
    /\ blockers = NoBlockers
    /\ app = NoApp

\* `const domain = this.extractDomain(url)` and the domain check on it
ExtractDomain ==
    /\ last.op = "extractDomain"
    /\ last.ret = Pending
    /\ LET domain == extractDomain(last.arg.str)
       IN  last' = [last EXCEPT !.ret =
                       Return([domain  |-> domain,
                               blocked |-> Truthy(domain)
                                            /\ isDomainBlocked(filters, domain.str)])]
    /\ UNCHANGED <<config, filters, blockedCount, blockedReturns, ref, hook, webView,
                   injector, injectorLog, page, blockers, app>>

NextExtract == ExtractDomain

SpecExtract == InitExtract /\ [][NextExtract]_vars

----------------------------------------------------------------------------
(* Pattern compilation on short patterns and texts *)

\* patterns hold at most MaxPatternLen characters, texts at most MaxTextLen
MaxPatternLen == 3

MaxTextLen == 3

\* the texts of at most n characters of an alphabet
RECURSIVE Texts(_, _)
Texts(alphabet, n) ==
    IF n = 0 THEN {<<>>}
    ELSE LET shorter == Texts(alphabet, n - 1)
         IN  shorter \cup {<<c>> \o x : c \in alphabet, x \in shorter}

\* a letter, the wildcard and a regular-expression metacharacter
PatternAlphabet == {"a", "*", "."}

\* a letter in both cases, another letter, the metacharacter and a line feed
TextAlphabet == {"a", "A", "x", ".", "\n"}

\* the patterns of the static lists, the pattern '&ad_type=*' and patterns
\* that hold each escaped metacharacter
PatternInputs ==
    Texts(PatternAlphabet, MaxPatternLen)
    \cup {AD_URL_PATTERNS[i] : i \in 1..Len(AD_URL_PATTERNS)}
    \cup {ALLOW_PATTERNS[i] : i \in 1..Len(ALLOW_PATTERNS)}
    \cup {<<"&","a","d","_","t","y","p","e","=","*">>,
          <<".","+","?","^","$","{","}","(",")","|","[","]","\\">>,
          <<"a","+","b","?","(","c",")","|","[","d","]","{","1","}","^","$","\\","e">>}

TextInputs ==
    Texts(TextAlphabet, MaxTextLen)
    \cup {<<"h","t","t","p","s",":","/","/","x",".","t","e","s","t","/","w","a","t","c","h","?","v","=","1","&","a","d","_","t","y","p","e","=","s","k","i","p","p","a","b","l","e">>,
          <<"h","t","t","p","s",":","/","/","x",".","t","e","s","t","/","w","a","t","c","h","?","v","=","1">>,
          <<"h","t","t","p","s",":","/","/","x",".","t","e","s","t","/","g","e","t","_","v","i","d","e","o","_","i","n","f","o","?","x","=","1","&","A","D","F","O","R","M","A","T","=","2">>,
          <<".","+","?","^","$","{","}","(",")","|","[","]","\\">>,
          <<"x","a","+","b","?","(","c",")","|","[","d","]","{","1","}","^","$","\\","e","x">>}

\* one pattern is compiled and tested on one text
InitPatterns ==
    /\ config \in {c \in Configs : c.customRules = <<>> /\ c.enabled /\ ~c.logBlocked}
    /\ filters = compileFilters(config)
    /\ blockedCount = 0
    /\ last \in {[op |-> "matchesBlockedPattern",
                  arg |-> [pattern |-> p, url |-> u],
                  ret |-> Pending] : p \in PatternInputs, u \in TextInputs}
    /\ blockedReturns = 0
    /\ ref = NoRef
    /\ hook = NoHook
    /\ webView = WebViewMounted
    /\ injector = NoInjectors
    /\ injectorLog = NoInjectorLog
    /\ page = NoPage
    /\ blockers = NoBlockers
    /\ app = NoApp

\* matchesBlockedPattern(url) on a blocked-pattern list that holds
\* patternToRegex(pattern)
MatchesBlockedPattern ==
    /\ last.op = "matchesBlockedPattern"
    /\ last.ret = Pending
    /\ LET flt == [blockedPatterns |-> <<patternToRegex(last.arg.pattern)>>]
       IN  last' = [last EXCEPT !.ret =
                       IF RegexSyntaxOk(flt.blockedPatterns[1].source)
                       THEN Return(matchesBlockedPattern(flt, last.arg.url))
                       ELSE Throw([name |-> "SyntaxError"])]
    /\ UNCHANGED <<config, filters, blockedCount, blockedReturns, ref, hook, webView,
                   injector, injectorLog, page, blockers, app>>

NextPatterns == MatchesBlockedPattern

SpecPatterns == InitPatterns /\ [][NextPatterns]_vars

----------------------------------------------------------------------------
(* The calls made on the ScriptInjectorService instances *)

\* the getters are offered while generateAdRemovalScript has run fewer than
\* MaxRuns times since the last clearCache
MaxRuns == 2

InitInjector ==
    /\ config \in {c \in Configs : c.customRules = <<>> /\ c.enabled /\ ~c.logBlocked}
    /\ filters = compileFilters(config)
    /\ blockedCount = 0
    /\ last = NoCall
    /\ blockedReturns = 0
    /\ ref = NoRef
    /\ hook = NoHook
    /\ webView = WebViewMounted
    /\ injector = NoInjectors
    /\ injectorLog = NoInjectorLog
    /\ page = NoPage
    /\ blockers = NoBlockers
    /\ app = NoApp

GetMainScript(i) ==
    /\ injectorLog[i].runs < MaxRuns
    /\ LET r == getMainScript(injector[i])
       IN  /\ injector' = [injector EXCEPT ![i] = r.injector]
           /\ last' = [op |-> "getMainScript", arg |-> i, ret |-> Return(r.ret)]
           /\ injectorLog' = [injectorLog EXCEPT
                                 ![i].runs = IF r.generated THEN @ + 1 ELSE @]
    /\ UNCHANGED <<config, filters, blockedCount, blockedReturns, ref, hook, webView, page, blockers, app>>

GetPreloadScript(i) ==
    /\ injectorLog[i].runs < MaxRuns
    /\ LET r == getPreloadScript(injector[i])
       IN  /\ injector' = [injector EXCEPT ![i] = r.injector]
           /\ last' = [op |-> "getPreloadScript", arg |-> i, ret |-> Return(r.ret)]
    /\ UNCHANGED <<config, filters, blockedCount, blockedReturns, ref, hook, webView,
                   injectorLog, page, blockers, app>>

GetInjectedJavaScript(i) ==
    /\ injectorLog[i].runs < MaxRuns
    /\ LET r == getInjectedJavaScript(injector[i])
       IN  /\ injector' = [injector EXCEPT ![i] = r.injector]
           /\ last' = [op |-> "getInjectedJavaScript", arg |-> i, ret |-> Return(r.ret)]
           /\ injectorLog' = [injectorLog EXCEPT
                                 ![i].runs = IF r.generated THEN @ + 1 ELSE @,
                                 ![i].first = IF @ = Null THEN r.ret ELSE @]
    /\ UNCHANGED <<config, filters, blockedCount, blockedReturns, ref, hook, webView, page, blockers, app>>

GetAdHidingCSS(i) ==
    /\ injectorLog[i].runs < MaxRuns
    /\ LET r == getAdHidingCSS(injector[i])
       IN  /\ injector' = [injector EXCEPT ![i] = r.injector]
           /\ last' = [op |-> "getAdHidingCSS", arg |-> i, ret |-> Return(r.ret)]
    /\ UNCHANGED <<config, filters, blockedCount, blockedReturns, ref, hook, webView,
                   injectorLog, page, blockers, app>>

ClearCache(i) ==
    /\ LET r == clearCache(injector[i])
       IN  /\ injector' = [injector EXCEPT ![i] = r.injector]
           /\ last' = [op |-> "clearCache", arg |-> i, ret |-> Return(r.ret)]
           /\ injectorLog' = [injectorLog EXCEPT
                                 ![i].runs = 0,
                                 ![i].cleared = @ \/ injectorLog[i].first # Null]
    /\ UNCHANGED <<config, filters, blockedCount, blockedReturns, ref, hook, webView, page, blockers, app>>

NextInjector ==
    \E i \in Instances :
        \/ GetMainScript(i)
        \/ GetPreloadScript(i)
        \/ GetInjectedJavaScript(i)
        \/ GetAdHidingCSS(i)
        \/ ClearCache(i)

SpecInjector == InitInjector /\ [][NextInjector]_vars

----------------------------------------------------------------------------
(* The injected script and the page around it *)

\* the clock advances at most MaxTicks times
MaxTicks == 3

\* the operations that fault in a page: none, one, or all
FaultSets == {{}, Operations} \cup {{op} : op \in Operations}

\* the steps of the clock, in milliseconds
Delays == {1, Throttle - 1, BackstopPeriod}

InitPage ==
    /\ config \in {c \in Configs : c.customRules = <<>> /\ c.enabled /\ ~c.logBlocked}
    /\ filters = compileFilters(config)
    /\ blockedCount = 0
    /\ last = NoCall
    /\ blockedReturns = 0
    /\ ref = NoRef
    /\ hook = NoHook
    /\ webView = WebViewMounted
    /\ injector = NoInjectors
    /\ injectorLog = NoInjectorLog
    /\ page \in {NewPage(readyState, faults) :
                    readyState \in {"loading", "complete"},
                    faults \in FaultSets}
    /\ blockers = NoBlockers
    /\ app = NoApp

\* the WebView runs the injected script: the body of the function
Inject ==
    /\ page.phase = "none"
    /\ page' = IF page.readyState = "loading"
                    THEN IF "addEventListener" \in page.faults THEN Escape(page)
                         ELSE [page EXCEPT !.phase = "waiting"]
                ELSE init(page)
    /\ UNCHANGED <<config, filters, blockedCount, last, blockedReturns, ref, hook,
                   webView, injector, injectorLog, blockers, app>>

\* the DOMContentLoaded listener
DOMContentLoaded ==
    /\ page.phase = "waiting"
    /\ page' = init([page EXCEPT !.readyState = "interactive"])
    /\ UNCHANGED <<config, filters, blockedCount, last, blockedReturns, ref, hook,
                   webView, injector, injectorLog, blockers, app>>

\* the page changes its elements; an attached observer calls checkAds
Mutation(adsVisible, adPlaying) ==
    /\ page.phase # "none"
    /\ LET changed == [page EXCEPT !.adsVisible = adsVisible, !.adPlaying = adPlaying]
       IN  page' = IF page.observer THEN checkAds(changed) ELSE changed
    /\ UNCHANGED <<config, filters, blockedCount, last, blockedReturns, ref, hook,
                   webView, injector, injectorLog, blockers, app>>

\* the backstop timer fires
IntervalFire ==
    /\ page.interval
    /\ page.now >= page.nextFire
    /\ page' = skipVideoAd([page EXCEPT !.nextFire = @ + BackstopPeriod])
    /\ UNCHANGED <<config, filters, blockedCount, last, blockedReturns, ref, hook,
                   webView, injector, injectorLog, blockers, app>>

\* time passes
Tick(d) ==
    /\ page.ticks < MaxTicks
    /\ page' = [page EXCEPT !.now = @ + d, !.ticks = @ + 1]
    /\ UNCHANGED <<config, filters, blockedCount, last, blockedReturns, ref, hook,
                   webView, injector, injectorLog, blockers, app>>

NextPage ==
    \/ Inject
    \/ DOMContentLoaded
    \/ \E adsVisible, adPlaying \in BOOLEAN : Mutation(adsVisible, adPlaying)
    \/ IntervalFire
    \/ \E d \in Delays : Tick(d)

SpecPage == InitPage /\ [][NextPage]_vars

----------------------------------------------------------------------------
(* The module of the engine: the `instance` binding, getUrlBlocker and     *)
(* createUrlBlocker.  Engines live in a heap and callers hold references.  *)

\* bound on the references handed out
MaxRefs == 3

\* bound on the counter of each engine of the heap
MaxLogged == 1

\* the argument `config?: Partial<BlockerConfig>`: any subset of the two
\* flags; the empty one is also what an omitted argument defaults to
PartialConfigs ==
    UNION {[fields -> BOOLEAN] : fields \in SUBSET {"enabled", "logBlocked"}}

\* dev is the value of __DEV__ in the build
DEFAULT_CONFIG(dev) == [enabled |-> TRUE, logBlocked |-> dev, customRules |-> <<>>]

\* { ...defaults, ...cfg }
Spread(defaults, cfg) ==
    LET Field(f) == IF f \in DOMAIN cfg THEN cfg[f] ELSE defaults[f]
    IN  [enabled |-> Field("enabled"), logBlocked |-> Field("logBlocked"),
         customRules |-> Field("customRules")]

\* new UrlBlockerService(cfg).  compileFilters reads the filter lists and no
\* field of the config, so every engine compiles the same value: it is held
\* once, in `filters`, for all the engines of the heap.
NewUrlBlockerService(dev, cfg) ==
    [config |-> Spread(DEFAULT_CONFIG(dev), cfg), blockedCount |-> 0]

\* getUrlBlocker that constructs an engine on every call
getUrlBlocker_Fresh(b, cfg) ==
    LET heap == Append(b.heap, NewUrlBlockerService(b.dev, cfg))
    IN  [instance |-> Len(heap), heap |-> heap, ret |-> Len(heap)]

\* getUrlBlocker(cfg): the binding, the heap and the reference returned
getUrlBlocker(b, cfg) ==
    IF b.instance = 0
        THEN LET heap == Append(b.heap, NewUrlBlockerService(b.dev, cfg))
             IN  [instance |-> Len(heap), heap |-> heap, ret |-> Len(heap)]
        ELSE [instance |-> b.instance, heap |-> b.heap, ret |-> b.instance]

\* createUrlBlocker(cfg)
createUrlBlocker(b, cfg) ==
    LET heap == Append(b.heap, NewUrlBlockerService(b.dev, cfg))
    IN  [instance |-> b.instance, heap |-> heap, ret |-> Len(heap)]

\* the URLs asked through the references: one blocked by its domain, one
\* let through by an allow pattern
SingletonInputs ==
    { Str(<<"h","t","t","p","s",":","/","/","d","o","u","b","l","e","c","l","i","c","k",".","n","e","t","/","p","a","t","h">>),
      Str(<<"/","v","i","d","e","o","p","l","a","y","b","a","c","k","?","x">>) }

\* the module has been loaded, no function of it has been called
InitSingleton ==
    /\ config \in {c \in Configs : c.customRules = <<>> /\ c.enabled /\ ~c.logBlocked}
    /\ filters = compileFilters(config)
    /\ blockedCount = 0
    /\ last = NoCall
    /\ blockedReturns = 0
    /\ ref = NoRef
    /\ hook = NoHook
    /\ webView = WebViewMounted
    /\ injector = NoInjectors
    /\ injectorLog = NoInjectorLog
    /\ page = NoPage
    /\ blockers \in {[NoBlockers EXCEPT !.dev = dev] : dev \in BOOLEAN}
    /\ app = NoApp

\* a caller obtains the singleton
GetUrlBlocker(cfg) ==
    /\ Len(blockers.refs) < MaxRefs
    /\ LET r == getUrlBlocker(blockers, cfg)
       IN  /\ blockers' =
                [blockers EXCEPT
                    !.instance = r.instance,
                    !.heap = r.heap,
                    !.refs = Append(@, [via |-> "getUrlBlocker", id |-> r.ret]),
                    !.shared = IF blockers.instance = 0
                                   THEN [enabled |-> Spread(DEFAULT_CONFIG(blockers.dev), cfg).enabled,
                                         logged |-> 0]
                                   ELSE @]
           /\ last' = [op |-> "getUrlBlocker", arg |-> [partial |-> cfg],
                       ret |-> Return([id |-> r.ret])]
    /\ UNCHANGED <<config, filters, blockedCount, blockedReturns, ref, hook, webView,
                   injector, injectorLog, page, app>>

\* a caller creates an engine of its own
CreateUrlBlocker(cfg) ==
    /\ Len(blockers.refs) < MaxRefs
    /\ LET r == createUrlBlocker(blockers, cfg)
       IN  /\ blockers' =
                [blockers EXCEPT
                    !.instance = r.instance,
                    !.heap = r.heap,
                    !.refs = Append(@, [via |-> "createUrlBlocker", id |-> r.ret])]
           /\ last' = [op |-> "createUrlBlocker", arg |-> [partial |-> cfg],
                       ret |-> Return([id |-> r.ret])]
    /\ UNCHANGED <<config, filters, blockedCount, blockedReturns, ref, hook, webView,
                   injector, injectorLog, page, app>>

\* the reference i came from getUrlBlocker
IsShared(i) == blockers.refs[i].via = "getUrlBlocker"

\* setEnabled(enabled) through the reference i
SetEnabledVia(i, enabled) ==
    /\ blockers' =
         [blockers EXCEPT
            !.heap[blockers.refs[i].id].config.enabled = enabled,
            !.shared.enabled = IF IsShared(i) THEN enabled ELSE @]
    /\ last' = [op |-> "setEnabled", arg |-> [ref |-> i, enabled |-> enabled],
                ret |-> Return(Undefined)]
    /\ UNCHANGED <<config, filters, blockedCount, blockedReturns, ref, hook, webView,
                   injector, injectorLog, page, app>>

\* shouldBlock(url) through the reference i
ShouldBlockVia(i, url) ==
    LET e == blockers.heap[blockers.refs[i].id]
        r == shouldBlock(e.config, filters, e.blockedCount, url)
    IN  /\ e.blockedCount < MaxLogged
        /\ blockers' =
             [blockers EXCEPT
                !.heap[blockers.refs[i].id].blockedCount = r.blockedCount,
                !.shared.logged = IF IsShared(i) THEN @ + (r.blockedCount - e.blockedCount)
                                  ELSE @]
        /\ last' = [op |-> "shouldBlock", arg |-> [ref |-> i, url |-> url],
                    ret |-> r.outcome]
        /\ UNCHANGED <<config, filters, blockedCount, blockedReturns, ref, hook, webView,
                       injector, injectorLog, page, app>>

\* getStats() through the reference i
GetStatsVia(i) ==
    LET e == blockers.heap[blockers.refs[i].id]
    IN  /\ last' = [op |-> "getStats", arg |-> [ref |-> i],
                    ret |-> Return([blockedCount |-> e.blockedCount,
                                    enabled |-> e.config.enabled])]
        /\ UNCHANGED <<config, filters, blockedCount, blockedReturns, ref, hook, webView,
                       injector, injectorLog, page, blockers, app>>

\* resetStats() through the reference i
ResetStatsVia(i) ==
    /\ blockers' =
         [blockers EXCEPT
            !.heap[blockers.refs[i].id].blockedCount = 0,
            !.shared.logged = IF IsShared(i) THEN 0 ELSE @]
    /\ last' = [op |-> "resetStats", arg |-> [ref |-> i], ret |-> Return(Undefined)]
    /\ UNCHANGED <<config, filters, blockedCount, blockedReturns, ref, hook, webView,
                   injector, injectorLog, page, app>>

NextSingleton ==
    \/ \E cfg \in PartialConfigs : GetUrlBlocker(cfg)
    \/ \E cfg \in PartialConfigs : CreateUrlBlocker(cfg)
    \/ \E i \in 1..Len(blockers.refs) :
          \/ \E enabled \in BOOLEAN : SetEnabledVia(i, enabled)
          \/ \E url \in SingletonInputs : ShouldBlockVia(i, url)
          \/ GetStatsVia(i)
          \/ ResetStatsVia(i)

SpecSingleton == InitSingleton /\ [][NextSingleton]_vars

----------------------------------------------------------------------------
(* The App component and the useNetworkStatus hook.  The repository holds  *)
(* two texts of each: AppContent (part_000) and App (part_001); the hook   *)
(* of hooks/useNetworkStatus.ts and the one with the mount guard.  Which   *)
(* pair is built is chosen at Init.  The component is taken alone: its     *)
(* onLoadStart, onLoadEnd and onError props may be called in any state.    *)
(* A setState of a handler and the render that follows are one step; a     *)
(* setState on an unmounted component changes nothing.                     *)

\* bound on the reload key
MaxKey == 2

\* bound on the connection checks in flight
MaxPending == 1

JsTrue == Bool(<<"t","r","u","e">>)

JsFalse == Bool(<<"f","a","l","s","e">>)

\* isConnected and isInternetReachable: boolean | null
NetInfoStates ==
    [isConnected : {JsTrue, JsFalse, Null}, isInternetReachable : {JsTrue, JsFalse, Null}]

\* the states the listener delivers: online, no internet behind the
\* connection, no connection, not yet known
NetInfoEvents ==
    { [isConnected |-> JsTrue, isInternetReachable |-> JsTrue],
      [isConnected |-> JsTrue, isInternetReachable |-> JsFalse],
      [isConnected |-> JsFalse, isInternetReachable |-> JsFalse],
      [isConnected |-> Null, isInternetReachable |-> Null] }

\* how NetInfo.fetch() settles: with a state, or rejected
FetchOutcomes == {Return(st) : st \in NetInfoStates} \cup {Throw(Obj)}

\* state.isConnected === true && state.isInternetReachable === true
IsReachable(st) ==
    IF st.isConnected = JsTrue /\ st.isInternetReachable = JsTrue THEN JsTrue ELSE JsFalse

\* checkConnection of hooks/useNetworkStatus.ts: no try/catch around the fetch
checkConnection_Bare(fetched) ==
    IF fetched.kind = "throw" THEN fetched ELSE Return(IsReachable(fetched.value))

\* checkConnection with try/catch: a failed fetch counts as not connected
checkConnection_Caught(fetched) ==
    IF fetched.kind = "throw" THEN Return(JsFalse) ELSE Return(IsReachable(fetched.value))

HookSources == {"hooks/useNetworkStatus.ts", "useNetworkStatus (mount guard)"}

\* how the promise of checkConnection() settles once the fetch has settled
checkConnection(hookSource, fetched) ==
    IF hookSource = "hooks/useNetworkStatus.ts" THEN checkConnection_Bare(fetched)
    ELSE checkConnection_Caught(fetched)

Components == {"AppContent", "App"}

AppStates == {"loading", "success", "offline", "error", "timeout"}

FailureStates == {"offline", "error", "timeout"}

INITIAL_ERROR_STATE == [code |-> Undefined, message |-> Undefined]

INITIAL_STATE == [isConnected |-> JsTrue, isInternetReachable |-> JsTrue]

\* the component after its first render and its mount effects: the initial
\* connection check is in flight
NewApp(component, hookSource) ==
    [phase |-> "rendered", component |-> component, hookSource |-> hookSource,
     isMounted |-> TRUE, appState |-> "loading", error |-> INITIAL_ERROR_STATE,
     key |-> 0, networkStatus |-> INITIAL_STATE,
     checks |-> << [then |-> "checkInitialConnection", description |-> Undefined] >>]

\* setAppState(value)
setAppState(a, value) == IF a.isMounted THEN [a EXCEPT !.appState = value] ELSE a

\* setError(value)
setError(a, value) == IF a.isMounted THEN [a EXCEPT !.error = value] ELSE a

\* setKey(prev => prev + 1)
setKey(a) == IF a.isMounted THEN [a EXCEPT !.key = @ + 1] ELSE a

\* a monitor effect that resumes loading when the connection is back
MonitorEffect_Restore(a) ==
    IF a.networkStatus = INITIAL_STATE /\ a.appState = "offline"
        THEN setAppState(a, "loading")
        ELSE a

\* the body of the connection monitor effect
MonitorEffect(a) ==
    IF a.isMounted
       /\ (a.networkStatus.isConnected = JsFalse
             \/ a.networkStatus.isInternetReachable = JsFalse)
       /\ a.appState # "offline"
        THEN setAppState(a, "offline")
        ELSE a

\* the effects of the render after a handler: the monitor effect of App has
\* appState among its dependencies, the one of AppContent has not
Rendered(a) == IF a.component = "App" THEN MonitorEffect(a) ELSE a

\* the promise of a checkConnection() call, and what awaits it
Check(then, description) == [then |-> then, description |-> description]

\* checkInitialConnection after its await
checkInitialConnection(a, connected) ==
    IF ~connected /\ (a.component = "App" \/ a.isMounted)
        THEN setAppState(a, "offline")
        ELSE a

\* handleRetry up to its await
handleRetry(a) ==
    IF a.component = "AppContent" /\ ~a.isMounted THEN a
    ELSE [a EXCEPT !.checks = Append(@, Check("handleRetry", Undefined))]

\* handleRetry that reloads whatever the check reports
handleRetry_Unchecked(a, connected) ==
    setKey(setError(setAppState(a, "loading"), INITIAL_ERROR_STATE))

\* handleRetry after its await
handleRetry_Resumed(a, connected) ==
    IF ~connected THEN setAppState(a, "offline")
    ELSE setKey(setError(setAppState(a, "loading"), INITIAL_ERROR_STATE))

\* handleWebViewError: the callback of checkConnection().then
handleWebViewError_Then(a, description, connected) ==
    IF a.component = "AppContent" /\ ~a.isMounted THEN a
    ELSE IF ~connected THEN setAppState(a, "offline")
    ELSE setError(setAppState(a, "error"), [code |-> Undefined, message |-> description])

\* handleWebViewError(webViewError)
handleWebViewError(a, webViewError) ==
    IF a.component = "AppContent" /\ ~a.isMounted THEN a
    ELSE CASE webViewError.type = "timeout" -> setAppState(a, "timeout")
           [] webViewError.type = "http" ->
                setError(setAppState(a, "error"),
                         [code |-> webViewError.code, message |-> webViewError.description])
           [] webViewError.type = "load" ->
                [a EXCEPT !.checks = Append(@, Check("handleWebViewError", webViewError.description))]
           [] OTHER -> a

\* handleLoadStart
handleLoadStart(a) ==
    IF a.component = "App" /\ a.appState \in {"loading", "success"}
        THEN setAppState(a, "loading")
        ELSE a

\* handleLoadEnd that reports success whatever the state
handleLoadEnd_Always(a) == setAppState(a, "success")

\* handleLoadEnd
handleLoadEnd(a) ==
    IF a.component = "AppContent" /\ ~a.isMounted THEN a
    ELSE IF a.appState = "loading" THEN setAppState(a, "success")
    ELSE a

\* the code that runs when the check settles
Resume(a, check, connected) ==
    CASE check.then = "checkInitialConnection" -> checkInitialConnection(a, connected)
      [] check.then = "handleRetry" -> handleRetry_Resumed(a, connected)
      [] check.then = "handleWebViewError" ->
            handleWebViewError_Then(a, check.description, connected)

\* the sequence without its i-th element
RemoveAt(seq, i) == SubSeq(seq, 1, i - 1) \o SubSeq(seq, i + 1, Len(seq))

\* the errors a WebView reports: WebViewError
WebViewErrors ==
    { [type |-> "timeout", code |-> Undefined, description |-> Undefined],
      [type |-> "http", code |-> Num(<<"4","0","4">>),
       description |-> Str(<<"N","o","t"," ","F","o","u","n","d">>)],
      [type |-> "load", code |-> Undefined,
       description |-> Str(<<"n","e","t",":",":","E","R","R","_","F","A","I","L","E","D">>)] }

InitApp ==
    /\ config \in {c \in Configs : c.customRules = <<>> /\ c.enabled /\ ~c.logBlocked}
    /\ filters = compileFilters(config)
    /\ blockedCount = 0
    /\ last = NoCall
    /\ blockedReturns = 0
    /\ ref = NoRef
    /\ hook = NoHook
    /\ webView = WebViewMounted
    /\ injector = NoInjectors
    /\ injectorLog = NoInjectorLog
    /\ page = NoPage
    /\ blockers = NoBlockers
    /\ app \in {NewApp(component, hookSource) :
                    component \in Components, hookSource \in HookSources}

\* the rest of the program does not move while the App is looked at
AppOnly ==
    UNCHANGED <<config, filters, blockedCount, blockedReturns, ref, hook, webView,
                injector, injectorLog, page, blockers>>

\* a handler of the App has run
AppCall(op, arg) == last' = [op |-> op, arg |-> arg, ret |-> Return(Undefined)]

\* NetInfo delivers a state to the hook (the listener, or the fetch of the
\* mount effect): updateNetworkStatus, then the monitor effect
NetInfoChange(state) ==
    /\ app.isMounted
    /\ state # app.networkStatus
    /\ app' = MonitorEffect([app EXCEPT !.networkStatus = state])
    /\ AppCall("updateNetworkStatus", state)
    /\ AppOnly

\* the retry button of a failure screen is pressed
HandleRetry ==
    /\ Len(app.checks) < MaxPending
    /\ app.key < MaxKey
    /\ app' = Rendered(handleRetry(app))
    /\ AppCall("handleRetry", Undefined)
    /\ AppOnly

\* the child reports an error
HandleWebViewError(webViewError) ==
    /\ webViewError.type = "load" => Len(app.checks) < MaxPending
    /\ app' = Rendered(handleWebViewError(app, webViewError))
    /\ AppCall("handleWebViewError", webViewError)
    /\ AppOnly

\* the child reports a load start
HandleLoadStart ==
    /\ app' = Rendered(handleLoadStart(app))
    /\ AppCall("handleLoadStart", Undefined)
    /\ AppOnly

\* the child reports a load end
HandleLoadEnd ==
    /\ app' = Rendered(handleLoadEnd(app))
    /\ AppCall("handleLoadEnd", Undefined)
    /\ AppOnly

\* the fetch of the i-th check in flight settles: checkConnection settles and
\* the code awaiting it runs, or is skipped when the promise rejects
CheckSettles(i, fetched) ==
    LET check == app.checks[i]
        settled == checkConnection(app.hookSource, fetched)
        rest == [app EXCEPT !.checks = RemoveAt(@, i)]
    IN  /\ app' = IF settled.kind = "throw"
                      THEN rest
                      ELSE Rendered(Resume(rest, check, settled.value = JsTrue))
        /\ last' = [op |-> "checkConnection",
                    arg |-> [then |-> check.then, description |-> check.description,
                             fetched |-> fetched],
                    ret |-> settled]
        /\ AppOnly

\* the component is unmounted: the cleanup of the mount effect
UnmountApp ==
    /\ app.isMounted
    /\ app' = [app EXCEPT !.isMounted = FALSE]
    /\ AppCall("unmount", Undefined)
    /\ AppOnly

NextApp ==
    \/ \E state \in NetInfoEvents : NetInfoChange(state)
    \/ HandleRetry
    \/ \E webViewError \in WebViewErrors : HandleWebViewError(webViewError)
    \/ HandleLoadStart
    \/ HandleLoadEnd
    \/ \E i \in 1..Len(app.checks) : \E fetched \in FetchOutcomes : CheckSettles(i, fetched)
    \/ UnmountApp

SpecApp == InitApp /\ [][NextApp]_vars

\* NetInfo answers every fetch: a check in flight settles
SpecAppFair ==
    /\ InitApp
    /\ [][NextApp]_vars
    /\ WF_vars(\E i \in 1..Len(app.checks) :
                    \E fetched \in FetchOutcomes : CheckSettles(i, fetched))

----------------------------------------------------------------------------
(* The YouTubeWebView component, taken alone: the native events of the     *)
(* WebView arrive in any order, the calls of the props are recorded.       *)
(* timeoutRef holds 0 for null or the id of a timer; timers are the timers *)
(* of the runtime that have not fired and were not cleared.  A setState    *)
(* of a handler and the render that follows are one step.                  *)

\* the default of the timeoutDuration prop, in ms
timeoutDuration == 15000

\* bound on the setTimeout calls of one component
MaxTimers == 2

\* bound on the times the clock advances
MaxWaits == 2

\* what a handler did: the component after it, and its calls of the props
Handled(w, calls) == [w |-> w, calls |-> calls]

\* clearTimeoutHandler
clearTimeoutHandler(w) ==
    IF w.timeoutRef # 0
        THEN [w EXCEPT !.timers = {t \in @ : t.id # w.timeoutRef}, !.timeoutRef = 0]
        ELSE w

\* timeoutRef.current = setTimeout(..., timeoutDuration)
setTimeout(w) ==
    [w EXCEPT !.timers = @ \cup {[id |-> w.armed + 1, due |-> w.now + timeoutDuration]},
              !.timeoutRef = w.armed + 1,
              !.armed = @ + 1]

\* handleLoadStart that arms a timer without clearing the one before
YouTubeWebView_handleLoadStart_NoClear(w) ==
    IF ~w.isMounted THEN Handled(w, <<>>)
    ELSE IF w.isInitialLoad
        THEN Handled(setTimeout(w), << [fn |-> "onLoadStart"] >>)
    ELSE Handled(w, <<>>)

\* handleLoadStart of YouTubeWebView
YouTubeWebView_handleLoadStart(w) ==
    IF ~w.isMounted THEN Handled(w, <<>>)
    ELSE IF w.isInitialLoad
        THEN Handled(setTimeout(clearTimeoutHandler(w)), << [fn |-> "onLoadStart"] >>)
    ELSE Handled(w, <<>>)

\* handleLoadEnd that keeps isInitialLoad
YouTubeWebView_handleLoadEnd_Repeat(w) ==
    IF ~w.isMounted THEN Handled(w, <<>>)
    ELSE IF w.isInitialLoad
        THEN Handled(clearTimeoutHandler(w), << [fn |-> "onLoadEnd"] >>)
    ELSE Handled(clearTimeoutHandler(w), <<>>)

\* handleLoadEnd of YouTubeWebView
YouTubeWebView_handleLoadEnd(w) ==
    IF ~w.isMounted THEN Handled(w, <<>>)
    ELSE IF w.isInitialLoad
        THEN Handled([clearTimeoutHandler(w) EXCEPT !.isInitialLoad = FALSE],
                     << [fn |-> "onLoadEnd"] >>)
    ELSE Handled(clearTimeoutHandler(w), <<>>)

\* handleError
handleError(w, description) ==
    IF ~w.isMounted THEN Handled(w, <<>>)
    ELSE IF w.isInitialLoad
        THEN Handled(clearTimeoutHandler(w),
                     << [fn |-> "onError", type |-> "load", description |-> description] >>)
    ELSE Handled(clearTimeoutHandler(w), <<>>)

\* handleHttpError
handleHttpError(w, statusCode, description) ==
    IF ~w.isMounted THEN Handled(w, <<>>)
    ELSE IF statusCode >= 400 /\ w.isInitialLoad
        THEN Handled(clearTimeoutHandler(w),
                     << [fn |-> "onError", type |-> "http", code |-> statusCode,
                         description |-> description] >>)
    ELSE Handled(clearTimeoutHandler(w), <<>>)

\* the callback given to setTimeout, run by the runtime for the timer id
TimeoutCallback(w, id) ==
    LET fired == [w EXCEPT !.timers = {t \in @ : t.id # id}]
    IN  IF w.isMounted
            THEN Handled(fired, << [fn |-> "onError", type |-> "timeout"] >>)
            ELSE Handled(fired, <<>>)

\* the cleanup of the mount effect
UnmountCleanup(w) == clearTimeoutHandler([w EXCEPT !.isMounted = FALSE])

\* the status codes of the HTTP errors of the WebView
StatusCodes == {200, 399, 400, 404}

Descriptions == { Str(<<"n","e","t",":",":","E","R","R","_","F","A","I","L","E","D">>) }

InitWebView ==
    /\ config \in {c \in Configs : c.customRules = <<>> /\ c.enabled /\ ~c.logBlocked}
    /\ filters = compileFilters(config)
    /\ blockedCount = 0
    /\ last = NoCall
    /\ blockedReturns = 0
    /\ ref = NoRef
    /\ hook = NoHook
    /\ webView = WebViewMounted
    /\ injector = NoInjectors
    /\ injectorLog = NoInjectorLog
    /\ page = NoPage
    /\ blockers = NoBlockers
    /\ app = NoApp

\* the rest of the program does not move while the component is looked at
WebViewOnly ==
    UNCHANGED <<config, filters, blockedCount, blockedReturns, ref, hook,
                injector, injectorLog, page, blockers, app>>

\* a handler of the component has run and made these calls of the props
WebViewCall(op, arg, calls) ==
    last' = [op |-> op, arg |-> arg, ret |-> Return([calls |-> calls])]

\* onLoadStart of the WebView
WebViewLoadStart ==
    /\ webView.armed < MaxTimers
    /\ LET h == YouTubeWebView_handleLoadStart(webView)
       IN  /\ webView' = IF h.w.armed # webView.armed
                            THEN [h.w EXCEPT !.startedAt = webView.now, !.undisturbed = TRUE]
                            ELSE h.w
           /\ WebViewCall("handleLoadStart", Undefined, h.calls)
    /\ WebViewOnly

\* onLoadEnd of the WebView
WebViewLoadEnd ==
    /\ LET h == YouTubeWebView_handleLoadEnd(webView)
       IN  /\ webView' = IF webView.isMounted
                            THEN [h.w EXCEPT !.undisturbed = FALSE, !.ended = TRUE,
                                             !.onLoadEndCalls = @ + Len(h.calls)]
                            ELSE h.w
           /\ WebViewCall("handleLoadEnd", Undefined, h.calls)
    /\ WebViewOnly

\* onError of the WebView
WebViewError(description) ==
    /\ LET h == handleError(webView, description)
       IN  /\ webView' = IF webView.isMounted THEN [h.w EXCEPT !.undisturbed = FALSE]
                         ELSE h.w
           /\ WebViewCall("handleError", [description |-> description], h.calls)
    /\ WebViewOnly

\* onHttpError of the WebView
WebViewHttpError(statusCode, description) ==
    /\ LET h == handleHttpError(webView, statusCode, description)
       IN  /\ webView' = IF webView.isMounted THEN [h.w EXCEPT !.undisturbed = FALSE]
                         ELSE h.w
           /\ WebViewCall("handleHttpError",
                          [statusCode |-> statusCode, description |-> description], h.calls)
    /\ WebViewOnly

\* time passes
Wait(d) ==
    /\ webView.waits < MaxWaits
    /\ webView' = [webView EXCEPT !.now = @ + d, !.waits = @ + 1]
    /\ WebViewCall("wait", Undefined, <<>>)
    /\ WebViewOnly

\* the runtime runs the callback of a timer that is due
TimerFires(t) ==
    /\ t.due <= webView.now
    /\ LET h == TimeoutCallback(webView, t.id)
       IN  /\ webView' = h.w
           /\ WebViewCall("timeout", [id |-> t.id], h.calls)
    /\ WebViewOnly

\* the component is unmounted
UnmountWebView ==
    /\ webView.isMounted
    /\ webView' = [UnmountCleanup(webView) EXCEPT !.undisturbed = FALSE]
    /\ WebViewCall("unmount", Undefined, <<>>)
    /\ WebViewOnly

NextWebView ==
    \/ WebViewLoadStart
    \/ WebViewLoadEnd
    \/ \E description \in Descriptions : WebViewError(description)
    \/ \E statusCode \in StatusCodes : \E description \in Descriptions :
            WebViewHttpError(statusCode, description)
    \/ \E d \in {1, timeoutDuration - 1, timeoutDuration} : Wait(d)
    \/ \E t \in webView.timers : TimerFires(t)
    \/ UnmountWebView

SpecWebView == InitWebView /\ [][NextWebView]_vars

----------------------------------------------------------------------------
(* Vocabulary of the properties.  These say what a rule means without      *)
(* going through the regular expressions or the parser of the engine.      *)

\* a shouldBlock call has been answered
Answered == last.op = "shouldBlock" /\ last.ret # Pending

\* ... and it returned a BlockResult
Returned == Answered /\ last.ret.kind = "return"

\* the verdicts that carry no rule
AllowVerdict(reason) == Return(BlockResult(FALSE, Str(reason), NoRule))

\* sub occurs in s
Contains(s, sub) ==
    \E j \in 0..(Len(s) - Len(sub)) : \A k \in 1..Len(sub) : s[j + k] = sub[k]

\* sub occurs in s, letter case ignored
ContainsCI(s, sub) == Contains(toLowerCase(s), toLowerCase(sub))

\* the literal segments of a wildcard pattern, in order, occur in s from
\* position j on, letter case ignored
RECURSIVE WildcardFrom(_, _, _)
WildcardFrom(pattern, s, j) ==
    LET star == FirstOf(pattern, {"*"})
        seg  == SubSeq(pattern, 1, star - 1)
    IN  IF star > Len(pattern)
            THEN \E i \in j..(Len(s) - Len(seg) + 1) :
                    toLowerCase(SubSeq(s, i, i + Len(seg) - 1)) = toLowerCase(seg)
        ELSE \E i \in j..(Len(s) - Len(seg) + 1) :
                /\ toLowerCase(SubSeq(s, i, i + Len(seg) - 1)) = toLowerCase(seg)
                /\ WildcardFrom(From(pattern, star + 1), s, i + Len(seg))

WildcardHit(pattern, s) == WildcardFrom(pattern, s, 1)

AllowHit(s) == \E i \in 1..Len(ALLOW_PATTERNS) : WildcardHit(ALLOW_PATTERNS[i], s)

PatternHit(s) == \E i \in 1..Len(AD_URL_PATTERNS) : WildcardHit(AD_URL_PATTERNS[i], s)

\* D is the hostname h or a dot-delimited right-hand part of it
DotSuffix(h, D) ==
    \/ h = D
    \/ /\ Len(h) > Len(D)
       /\ From(h, Len(h) - Len(D) + 1) = D
       /\ h[Len(h) - Len(D)] = "."

DomainHit(h) == \E D \in BlockedDomainList : DotSuffix(h, D)

\* the text of s after an optional http:// or https:// up to the first '/'
\* or '?', lower-cased
HostText(s) ==
    LET low   == toLowerCase(s)
        after == IF StartsWith(low, Https) THEN From(low, 9)
                 ELSE IF StartsWith(low, <<"h","t","t","p",":","/","/">>) THEN From(low, 8)
                 ELSE low
    IN  SubSeq(after, 1, FirstOf(after, {"/", "?"}) - 1)

\* the verdict is a block by the domain rule
DomainVerdict ==
    /\ Returned
    /\ last.ret.value.blocked
    /\ StartsWith(last.ret.value.reason.str, ReasonDomainPrefix)

EnabledStringCall == Answered /\ config.enabled /\ last.arg.type = "string" /\ last.arg.str # <<>>

InvalidInput(v) == v.type # "string" \/ v.str = <<>>

\* the number of places at which sub occurs in s
Occurrences(s, sub) ==
    Cardinality({j \in 1..(Len(s) - Len(sub) + 1) : SubSeq(s, j, j + Len(sub) - 1) = sub})

\* the first place at which sub occurs in s
IndexOf(s, sub) ==
    CHOOSE j \in 1..(Len(s) - Len(sub) + 1) :
        /\ SubSeq(s, j, j + Len(sub) - 1) = sub
        /\ \A k \in 1..(j - 1) : SubSeq(s, k, k + Len(sub) - 1) # sub

\* a getAdHidingCSS call has returned
CssReturned == last.op = "getAdHidingCSS" /\ last.ret.kind = "return"

----------------------------------------------------------------------------
(* The claims *)

\* C1: shouldBlock never raises an error to its caller: every answered call
\* returned a BlockResult.
C1_NeverRaises == Answered => last.ret.kind = "return"

\* C2: on an enabled engine a URL that matches an allow pattern gets
\* blocked=false with the allow reason, whatever block rule it also matches.
C2_AllowPrecedence ==
    (EnabledStringCall /\ AllowHit(last.arg.str)) => last.ret = AllowVerdict(ReasonAllow)

\* an allowed URL that also matches a blocked pattern or a blocked domain
C2_Witness ==
    /\ EnabledStringCall
    /\ AllowHit(last.arg.str)
    /\ PatternHit(last.arg.str) \/ DomainHit(HostText(last.arg.str))
    /\ last.ret = AllowVerdict(ReasonAllow)

\* C3: on an enabled engine "https://" + D + "/path" is blocked with a reason
\* that cites D, for every blocked domain D.
C3_BlockedDomainBlocked ==
    \A D \in BlockedDomainList :
        (Answered /\ config.enabled /\ last.arg = Str(Https \o D \o <<"/","p","a","t","h">>))
            => /\ Returned
               /\ last.ret.value.blocked
               /\ Contains(last.ret.value.reason.str, D)

C3_Witness ==
    /\ Answered
    /\ config.enabled
    /\ last.arg \in DirectInputs
    /\ Returned
    /\ last.ret.value.blocked

\* C4: on an enabled engine "https://" + L + "." + D + "/x" returns
\* blocked=true for every blocked domain D and every chain of leading labels.
C4_SubdomainBlocked ==
    (Answered /\ config.enabled /\ last.arg \in SubdomainInputs)
        => (Returned /\ last.ret.value.blocked)

\* C5: a hostname of which no blocked domain is the whole or a dot-delimited
\* right-hand part is not blocked by the domain rule.
C5_OnlyDotSuffixes ==
    (Answered /\ config.enabled /\ ~DomainHit(HostText(last.arg.str)))
        => (Returned /\ ~DomainVerdict)

\* a hostname that holds a blocked domain without ending in it is allowed
C5_Witness ==
    /\ Answered
    /\ config.enabled
    /\ last.arg \in SubstringInputs
    /\ \E D \in BlockedDomainList : Contains(HostText(last.arg.str), D)
    /\ ~DomainHit(HostText(last.arg.str))
    /\ Returned
    /\ ~last.ret.value.blocked

\* C6: a disabled engine answers every input with blocked=false and the
\* disabled reason; once enabled again it answers a URL as it did before.
C6_DisabledAllowsAll ==
    Answered =>
        /\ ~config.enabled => last.ret = AllowVerdict(ReasonDisabled)
        /\ (config.enabled /\ ref.phase \in {"seen", "back"}) => last.ret = ref.ret

\* a URL blocked, then answered while disabled, then blocked again
C6_Witness ==
    /\ Answered
    /\ config.enabled
    /\ ref.phase = "back"
    /\ ref.offSeen
    /\ Returned
    /\ last.ret.value.blocked

C8_InvalidInput ==
    [][(last.op = "shouldBlock" /\ last.ret = Pending /\ config.enabled
            /\ InvalidInput(last.arg))
        => /\ last'.ret = AllowVerdict(ReasonInvalid)
           /\ UNCHANGED <<config, filters, blockedCount>>]_vars

C8_Witness ==
    /\ Answered
    /\ config.enabled
    /\ last.arg = Undefined
    /\ last.ret = AllowVerdict(ReasonInvalid)

\* C9: on an engine constructed with a custom rule R, a URL that matches R,
\* no allow pattern and no built-in rule is blocked.
C9_CustomRuleBlocks ==
    (/\ EnabledStringCall
     /\ \E i \in 1..Len(config.customRules) : WildcardHit(config.customRules[i], last.arg.str)
     /\ ~AllowHit(last.arg.str)
     /\ ~PatternHit(last.arg.str)
     /\ ~DomainHit(HostText(last.arg.str)))
        => (Returned /\ last.ret.value.blocked)

\* C10: with logBlocked enabled the counter, and the blockedCount getStats
\* reports, is the number of shouldBlock calls that returned blocked=true
\* since construction or the last resetStats.
C10_CountsBlockedVerdicts ==
    (config.logBlocked /\ Idle) =>
        /\ blockedCount = blockedReturns
        /\ last.op = "getStats" => last.ret.value.blockedCount = blockedReturns

\* C11: for every intercepted request the hook returns false when the
\* engine's shouldBlock(request.url).blocked is true and true otherwise,
\* within the call, and leaves the state of the WebView component as it was.
C11_HookFollowsVerdict ==
    [][(last.op = "shouldBlock" /\ last.ret = Pending)
        => /\ hook'.request = last.arg
           /\ hook'.ret = IF last'.ret.kind = "return" /\ last'.ret.value.blocked
                              THEN Return(Bool(<<"f","a","l","s","e">>))
                          ELSE Return(Bool(<<"t","r","u","e">>))
           /\ UNCHANGED webView]_vars

\* C12: no call of shouldBlock, getStats, resetStats or setEnabled changes
\* the compiled filters; setEnabled changes the enabled flag and nothing else
\* of the engine; a URL answered on the enabled engine after a disable/enable
\* cycle gets the verdict it got before the cycle.
C12_FiltersImmutable ==
    [][/\ filters' = filters
       /\ filters' = compileFilters(config')
       /\ (last'.op = "setEnabled")
            => /\ blockedCount' = blockedCount
               /\ [config' EXCEPT !.enabled = config.enabled] = config
               /\ config'.enabled = Truthy(last'.arg)
       /\ (last'.op = "shouldBlock" /\ last'.ret # Pending
             /\ config'.enabled /\ ref'.phase = "back")
            => last'.ret = ref'.ret]_vars

\* a URL blocked by a rule, a disable/enable cycle, and the URL blocked by
\* the same rule again on the filters of the construction
C12_Witness ==
    /\ Answered
    /\ config.enabled
    /\ ref.phase = "back"
    /\ Returned
    /\ last.ret.value.matchedRule # NoRule
    /\ last.ret = ref.ret
    /\ filters = compileFilters(config)

\* C13: a compiled pattern matches a text exactly when the text holds,
\* letter case ignored and at any position, the literal segments of the
\* pattern in order with any sequence of characters, the empty one included,
\* for each '*'; '&ad_type=*' matches
\* 'https://x.test/watch?v=1&ad_type=skippable' and not
\* 'https://x.test/watch?v=1'.
C13_WildcardCompilation ==
    (last.op = "matchesBlockedPattern" /\ last.ret # Pending)
        => last.ret = Return(WildcardHit(last.arg.pattern, last.arg.url))

\* C14: on each ScriptInjectorService every getInjectedJavaScript call
\* returns the text the first one returned, across calls of the other
\* getters and of clearCache, and generateAdRemovalScript runs at most once
\* between two clearCache calls.
C14_ScriptCacheIdempotent ==
    \A i \in Instances :
        /\ injectorLog[i].runs <= 1
        /\ (last.op = "getInjectedJavaScript" /\ last.arg = i)
            => /\ last.ret.value.type = "string"
               /\ last.ret = Return(injectorLog[i].first)

\* a getInjectedJavaScript call that generated the text anew after a
\* clearCache and returned the text of the first call
C14_Witness ==
    /\ last.op = "getInjectedJavaScript"
    /\ injectorLog[last.arg].cleared
    /\ injectorLog[last.arg].runs = 1
    /\ last.ret = Return(injectorLog[last.arg].first)
    /\ injector[last.arg].cachedMainScript = last.ret.value

\* C15: the text of generateAdHidingCSS holds every selector of
\* YOUTUBE_AD_SELECTORS once, in the order of the list with a comma between
\* neighbours, then the selector '.ad-showing video' and one rule body that
\* sets display:none and height:0.
C15_CssHoldsEverySelector ==
    CssReturned =>
        LET text   == last.ret.value.str
            n      == Len(YOUTUBE_AD_SELECTORS)
            sel(i) == YOUTUBE_AD_SELECTORS[i].selector
            end(i) == IndexOf(text, sel(i)) + Len(sel(i))
        IN  /\ \A i \in 1..n : Occurrences(text, sel(i)) = 1
            /\ IndexOf(text, sel(1)) = 1
            /\ \A i \in 1..(n - 1) :
                    /\ text[end(i)] = ","
                    /\ IndexOf(text, sel(i + 1)) = end(i) + 1
            /\ From(text, end(n)) =
                    <<",",".","a","d","-","s","h","o","w","i","n","g"," ","v","i","d","e","o">>
                    \o <<"{","d","i","s","p","l","a","y",":","n","o","n","e","!","i","m","p","o",
                      "r","t","a","n","t",";","h","e","i","g","h","t",":","0","!","i","m","p",
                      "o","r","t","a","n","t",";","}">>

\* getAdHidingCSS has returned a text that ends in the rule body
C15_Witness ==
    /\ CssReturned
    /\ Occurrences(last.ret.value.str, <<"{">>) = 1
    /\ last.ret.value.str[Len(last.ret.value.str)] = "}"

\* C16: between two executions of removeAds and skipVideoAd that the
\* observer triggered at least 500 ms pass, and a mutation that comes less
\* than 500 ms after the last check triggers no work.
C16_ObserverThrottled ==
    /\ \A i, j \in 1..Len(page.runs) : i < j => page.runs[j] - page.runs[i] >= 500
    /\ (page.lastMutation # "none" /\ page.since < 500) => page.lastMutation = "skipped"

\* the observer has triggered two executions, and a mutation 499 ms after
\* the second was left without work
C16_Witness ==
    /\ Len(page.runs) >= 2
    /\ page.lastMutation = "skipped"
    /\ page.since = 499

\* C17: no exception leaves the injected script, whichever of its
\* operations faults: hiding the elements, clicking the skip button, moving
\* the video forward, creating or attaching the observer, starting the
\* backstop timer, the initialisation.
C17_NoExceptionEscapes == ~page.escaped

\* C18: on an enabled engine a URL that matches no allow pattern, whose
\* hostname is domain-blocked and whose text matches a blocked pattern gets
\* blocked=true with the blocked-domain reason that cites the hostname, never
\* the pattern reason, and the counter goes up by one and no more.
C18_DomainBeforePattern ==
    [][(/\ last.op = "shouldBlock" /\ last.ret = Pending
        /\ config.enabled
        /\ last.arg.type = "string"
        /\ ~AllowHit(last.arg.str)
        /\ DomainHit(HostText(last.arg.str))
        /\ PatternHit(last.arg.str))
        => /\ last'.ret.kind = "return"
           /\ last'.ret.value.blocked
           /\ last'.ret.value.reason = Str(ReasonDomainPrefix \o HostText(last.arg.str))
           /\ blockedCount' = IF config.logBlocked THEN blockedCount + 1
                                                  ELSE blockedCount]_vars

\* C19: isDomainBlocked answers true exactly when the blocked set holds the
\* hostname or a right-hand part of it, after a dot, of two labels or more:
\* an entry that is the last label of a longer hostname does not block it.
C19_NoBareSuffix ==
    (last.op = "isDomainBlocked" /\ last.ret # Pending)
        => last.ret = Return(\E D \in last.arg.blockedDomains :
                                \/ D = last.arg.domain
                                \/ /\ DotSuffix(last.arg.domain, D)
                                   /\ Contains(D, <<".">>))

\* a hostname of three labels whose last label is in the blocked set, and
\* which is not blocked
C19_Witness ==
    /\ last.op = "isDomainBlocked"
    /\ last.ret = Return(FALSE)
    /\ Occurrences(last.arg.domain, <<".">>) = 2
    /\ \E D \in last.arg.blockedDomains :
            /\ D # last.arg.domain
            /\ DotSuffix(last.arg.domain, D)
            /\ ~Contains(D, <<".">>)

\* C20: the extracted hostname is lower-cased, so that
\* 'https://DoubleClick.NET/x' is domain-blocked as 'https://doubleclick.net/x'
\* is; for a text that URL parsing rejects the hostname is the text after an
\* optional http:// or https:// up to the first '/' or '?', lower-cased, and
\* it is null only when that text is empty.
C20_HostnameExtraction ==
    (last.op = "extractDomain" /\ last.ret # Pending) =>
        LET url    == last.arg.str
            domain == last.ret.value.domain
        IN  /\ domain # Null => domain.str = toLowerCase(domain.str)
            /\ url \in {Https \o <<"D","o","u","b","l","e","C","l","i","c","k",".","N","E","T","/","x">>,
                         Https \o <<"d","o","u","b","l","e","c","l","i","c","k",".","n","e","t","/","x">>}
                    => last.ret.value.blocked
            /\ ~ParseURL(url).ok =>
                    IF domain = Null THEN HostText(url) = <<>>
                    ELSE domain = Str(HostText(url))

----------------------------------------------------------------------------
\* C21: with logBlocked disabled the counter stays 0 and getStats() reports
\* blockedCount 0, however many shouldBlock calls returned blocked = true
C21_CounterCountsLoggedBlocks ==
    ~config.logBlocked =>
        /\ blockedCount = 0
        /\ (last.op = "getStats" => last.ret.value.blockedCount = 0)

\* getStats() is called on an engine that does not log, after MaxCount
\* shouldBlock calls returned blocked = true
C21_Witness ==
    /\ ~config.logBlocked
    /\ blockedReturns = MaxCount
    /\ last.op = "getStats"
    /\ last.ret.value.blockedCount = 0

----------------------------------------------------------------------------
\* the references obtained from getUrlBlocker and from createUrlBlocker
SharedRefs == {i \in 1..Len(blockers.refs) : IsShared(i)}

CreatedRefs == {i \in 1..Len(blockers.refs) : ~IsShared(i)}

\* what getStats() answers through the reference i
StatsVia(i) ==
    LET e == blockers.heap[blockers.refs[i].id]
    IN  [blockedCount |-> e.blockedCount, enabled |-> e.config.enabled]

\* C22: every getUrlBlocker call returns the engine the first call
\* constructed from its own config argument; later calls construct nothing
\* and ignore their argument; what setEnabled and the counter did through
\* one such reference is what getStats answers through every one of them;
\* createUrlBlocker returns a new engine in its initial state, and a call
\* through a reference changes no engine but the one it refers to.
C22_SingletonAndFresh ==
    [][LET n == Len(blockers.refs)
           called == Len(blockers'.refs) = n + 1
           new == blockers'.refs[n + 1]
           made == NewUrlBlockerService(blockers.dev, last'.arg.partial)
       IN  /\ \A i \in SharedRefs' :
                /\ blockers'.refs[i].id = blockers'.instance
                /\ StatsVia(i)' = [blockedCount |-> blockers'.shared.logged,
                                   enabled |-> blockers'.shared.enabled]
           /\ \A i \in CreatedRefs' :
                /\ blockers'.refs[i].id # blockers'.instance
                /\ \A j \in 1..Len(blockers'.refs) :
                      j # i => blockers'.refs[j].id # blockers'.refs[i].id
           /\ (called /\ new.via = "getUrlBlocker") =>
                IF blockers.instance = 0
                    THEN /\ blockers'.heap = Append(blockers.heap, made)
                         /\ blockers'.instance = Len(blockers'.heap)
                    ELSE /\ blockers'.heap = blockers.heap
                         /\ blockers'.instance = blockers.instance
           /\ (called /\ new.via = "createUrlBlocker") =>
                /\ blockers'.heap = Append(blockers.heap, made)
                /\ new.id = Len(blockers'.heap)
                /\ blockers'.instance = blockers.instance
           /\ ~called =>
                \A id \in 1..Len(blockers.heap) :
                    id # blockers.refs[last'.arg.ref].id
                        => blockers'.heap[id] = blockers.heap[id]]_vars

\* two references from getUrlBlocker and one from createUrlBlocker; the
\* singleton was disabled and has counted a block, getStats through the
\* second reference reports both, and the created engine, which logs, is
\* enabled with a counter of 0
C22_Witness ==
    /\ Len(blockers.refs) = 3
    /\ IsShared(1) /\ IsShared(2) /\ ~IsShared(3)
    /\ last.op = "getStats" /\ last.arg.ref = 2
    /\ last.ret.value = [blockedCount |-> 1, enabled |-> FALSE]
    /\ StatsVia(3) = [blockedCount |-> 0, enabled |-> TRUE]
    /\ blockers.heap[blockers.refs[3].id].config.logBlocked

----------------------------------------------------------------------------
\* C23: a load-end event moves the app state from 'loading' to 'success'
\* and leaves every other state as it is; no other step enters 'success'.
C23_SuccessOnlyFromLoading ==
    [][/\ (last'.op = "handleLoadEnd") =>
            app'.appState = IF app.appState = "loading" /\ app.isMounted
                                THEN "success"
                                ELSE app.appState
       /\ (app'.appState = "success" /\ app.appState # "success") =>
            (app.appState = "loading" /\ last'.op = "handleLoadEnd")]_vars

\* a load end handled while a failure screen is shown
C23_Witness ==
    /\ last.op = "handleLoadEnd"
    /\ app.isMounted
    /\ app.appState \in FailureStates

\* a retry check of AppContent has settled on the mounted component
RetrySettled ==
    /\ last.op = "checkConnection"
    /\ last.arg.then = "handleRetry"
    /\ app.component = "AppContent"
    /\ app.isMounted

\* C24: handleRetry of AppContent changes nothing before its connection
\* check settles; a check that reports not connected sets 'offline' and keeps
\* the reload key and the error details; one that reports connected sets
\* 'loading', empties the error details and adds one to the reload key; no
\* other step changes the reload key, which never decreases.
C24_RetryGatedByCheck ==
    [][/\ (last'.op = "handleRetry") =>
            /\ [app' EXCEPT !.checks = app.checks] = app
            /\ (app.component = "AppContent" /\ app.isMounted) =>
                    app'.checks = Append(app.checks, Check("handleRetry", Undefined))
       /\ (RetrySettled' /\ last'.ret = Return(JsFalse)) =>
            /\ app'.appState = "offline"
            /\ app'.key = app.key
            /\ app'.error = app.error
       /\ (RetrySettled' /\ last'.ret = Return(JsTrue)) =>
            /\ app'.appState = "loading"
            /\ app'.key = app.key + 1
            /\ app'.error = INITIAL_ERROR_STATE
       /\ app'.key >= app.key
       /\ (app'.key # app.key) =>
            /\ last'.op = "checkConnection"
            /\ last'.arg.then = "handleRetry"
            /\ last'.ret = Return(JsTrue)]_vars

\* the second successful retry of AppContent: the check reported connected
\* and the screen is loading under the reload key 2
C24_Witness ==
    /\ RetrySettled
    /\ last.ret = Return(JsTrue)
    /\ app.appState = "loading"
    /\ app.key = 2
    /\ app.error = INITIAL_ERROR_STATE

\* C25: from 'offline', 'error' and 'timeout' the only step into 'loading'
\* or 'success' is a handleRetry whose connection check reported connected,
\* and it leads to 'loading'.
C25_FailureLeftOnlyByRetry ==
    [][(app.appState \in FailureStates /\ app'.appState \in {"loading", "success"}) =>
            /\ last'.op = "checkConnection"
            /\ last'.arg.then = "handleRetry"
            /\ last'.ret = Return(JsTrue)
            /\ app'.appState = "loading"]_vars

\* the listener reports the connection restored while the offline screen
\* is shown, and the screen stays
C25_Witness ==
    /\ last.op = "updateNetworkStatus"
    /\ last.arg = INITIAL_STATE
    /\ app.isMounted
    /\ app.appState = "offline"

----------------------------------------------------------------------------
\* the monitor effect does not fire after the handler: AppContent runs it
\* on network changes only, App after every render while the hook reports
\* no connection
NoMonitorOverride ==
    \/ app.component = "AppContent"
    \/ ~(app.networkStatus.isConnected = JsFalse
           \/ app.networkStatus.isInternetReachable = JsFalse)

\* the check of a load error is in flight on the mounted component
LoadCheckInFlight ==
    /\ app.isMounted
    /\ \E i \in 1..Len(app.checks) : app.checks[i].then = "handleWebViewError"

\* C26: a 'timeout' error sets 'timeout'; an 'http' error sets 'error' with
\* its code and description; a 'load' error starts a connection check and
\* changes nothing else; when that check settles on the mounted component
\* 'not connected' sets 'offline' and 'connected' sets 'error' with the
\* description and no code, and on the unmounted component nothing changes;
\* a load check in flight leads to 'offline' or 'error' (or to the
\* component being unmounted), whatever is handled in between.
C26_ErrorsClassified ==
    /\ [][LET e == last'.arg
          IN  /\ (last'.op = "handleWebViewError" /\ app.isMounted /\ NoMonitorOverride) =>
                    CASE e.type = "timeout" ->
                            /\ app'.appState = "timeout"
                            /\ app'.error = app.error
                            /\ app'.checks = app.checks
                      [] e.type = "http" ->
                            /\ app'.appState = "error"
                            /\ app'.error = [code |-> e.code, message |-> e.description]
                            /\ app'.checks = app.checks
                      [] e.type = "load" ->
                            /\ app'.checks =
                                 Append(app.checks, Check("handleWebViewError", e.description))
                            /\ [app' EXCEPT !.checks = app.checks] = app
              /\ (last'.op = "checkConnection" /\ e.then = "handleWebViewError") =>
                    IF ~app.isMounted
                        THEN [app' EXCEPT !.checks = app.checks] = app
                        ELSE NoMonitorOverride =>
                                CASE last'.ret = Return(JsFalse) ->
                                        /\ app'.appState = "offline"
                                        /\ app'.error = app.error
                                  [] last'.ret = Return(JsTrue) ->
                                        /\ app'.appState = "error"
                                        /\ app'.error = [code |-> Undefined,
                                                         message |-> e.description]
                                  [] OTHER -> TRUE]_vars
    /\ LoadCheckInFlight ~> (app.appState \in {"offline", "error"} \/ ~app.isMounted)

\* C29: the promise of checkConnection() resolves, to true when the fetched
\* state has isConnected true and isInternetReachable true and to false in
\* every other case, a failed fetch included; it is never rejected.
C29_CheckConnectionResolves ==
    (last.op = "checkConnection") =>
        LET fetched == last.arg.fetched
            exact == /\ fetched.kind = "return"
                     /\ fetched.value.isConnected = JsTrue
                     /\ fetched.value.isInternetReachable = JsTrue
        IN  last.ret = Return(IF exact THEN JsTrue ELSE JsFalse)

----------------------------------------------------------------------------
\* the calls of the props made by the last handler
Calls == last.ret.value.calls

\* C27: at most one timeout timer is pending; none is pending after a load
\* end, a load error, an HTTP error or the unmount; the timer callback
\* reports 'timeout' only on the mounted component, timeoutDuration or more
\* after the last load start that armed a timer, with none of those events
\* since, and never once a load end was handled.
C27_TimeoutDiscipline ==
    [][/\ Cardinality(webView'.timers) <= 1
       /\ (last'.op \in {"handleLoadEnd", "handleError", "handleHttpError", "unmount"})
            => webView'.timers = {}
       /\ (last'.op = "timeout" /\ Calls' # <<>>) =>
            /\ Calls' = << [fn |-> "onError", type |-> "timeout"] >>
            /\ webView.isMounted
            /\ webView.now >= webView.startedAt + timeoutDuration
            /\ webView.undisturbed
            /\ ~webView.ended]_vars

\* a second load start re-armed the timer, and that timer ran out and
\* reported the timeout
C27_Witness ==
    /\ last.op = "timeout"
    /\ last.arg.id = 2
    /\ Calls = << [fn |-> "onError", type |-> "timeout"] >>

\* C28: once isInitialLoad is false no load start, load end, load error or
\* HTTP error calls a prop or arms a timer, and no timer is pending;
\* onLoadEnd is called at most once; an HTTP error is reported only with a
\* status code of 400 or more.
C28_ReportsOnlyInitialLoad ==
    [][/\ (~webView.isInitialLoad
            /\ last'.op \in {"handleLoadStart", "handleLoadEnd", "handleError", "handleHttpError"})
            => /\ Calls' = <<>>
               /\ webView'.armed = webView.armed
       /\ ~webView'.isInitialLoad => webView'.timers = {}
       /\ webView'.onLoadEndCalls <= 1
       /\ (last'.op = "handleHttpError" /\ Calls' # <<>>) =>
            /\ last'.arg.statusCode >= 400
            /\ Calls' = << [fn |-> "onError", type |-> "http",
                            code |-> last'.arg.statusCode,
                            description |-> last'.arg.description] >>]_vars

\* after the load end of the initial load an HTTP error with status 404
\* arrives and nothing is reported
C28_Witness ==
    /\ ~webView.isInitialLoad
    /\ webView.isMounted
    /\ webView.onLoadEndCalls = 1
    /\ last.op = "handleHttpError"
    /\ last.arg.statusCode = 404
    /\ Calls = <<>>

====
